---- MODULE Spec2Model ----
(***************************************************************************)
(* Model of the Structurizr DSL diagnostic engine (diagnostics.ts) and of  *)
(* the structural extractor (parser.ts).  Documents are line arrays of     *)
(* character strings; every check is translated from its source loop and   *)
(* its regular expressions are evaluated character by character.           *)
(***************************************************************************)
EXTENDS Integers, Sequences, FiniteSets, TLC

VARIABLES lines, pc, scan, diagnostics, parsed, blockContext, calls,
          documents, collection, lastEvent,
          clock, updateTimeout, timers, currentPanel, previewLog

\* the open documents, the diagnostic collection and the last editor event
editorVars == <<documents, collection, lastEvent>>

\* the state outside the diagnostic run and the extraction of one document
\* the time in milliseconds, the handle kept by activate, the timers set and
\* not yet run or cleared, PreviewPanel.currentPanel and the record of what
\* happened to the preview
previewVars == <<clock, updateTimeout, timers, currentPanel, previewLog>>

extensionVars == <<blockContext, calls, editorVars, previewVars>>

vars == <<lines, pc, scan, diagnostics, parsed, extensionVars>>

\* no block context has been asked for
NoBlock == [line |-> -1, context |-> ""]

\* no editor event has been delivered
NoEvent == [kind |-> "none", uri |-> ""]

\* the preview after activate: no timer was set, there is no panel
PreviewIdle ==
    /\ clock = 0
    /\ updateTimeout = <<>>
    /\ timers = {}
    /\ currentPanel = <<>>
    /\ previewLog = <<>>

\* the extension at rest: nothing asked, no call of parseDocument returned,
\* no document open, nothing published, no event yet, the preview idle
ExtensionIdle ==
    /\ PreviewIdle
    /\ blockContext = NoBlock
    /\ calls = <<>>
    /\ documents = <<>>
    /\ collection = <<>>
    /\ lastEvent = NoEvent

(***************************************************************************)
(* Bounds                                                                  *)
(***************************************************************************)
\* longest text (characters, newlines included) of the lexical specification
MaxText == 5

\* longest document (lines) of the duplicate-identifier specification
MaxDupLines == 4

\* longest document (lines) of the relationship-reference specification
MaxRelLines == 3

\* longest document (lines) of the view-scope specification
MaxViewLines == 3

\* longest document (lines) of the element-placement specification
MaxPlaceLines == 4

\* most model items and most views of a well-formed document
MaxItems == 2

\* longest document (lines) of the context-placement specification
MaxCtxLines == 3

\* longest document (lines) of the workspace-structure specification
MaxWsLines == 4

\* longest document (lines) of the keyword-spelling specification
MaxSpellLines == 2

\* longest document (lines) of the extractor specification
MaxParseLines == 3

\* longest text (tokens) of the malformed-text specification
MaxTokens == 4

\* longest document (lines) of the block-context specification
MaxBlockLines == 5

\* longest document (lines) of the keyword-case specification
MaxCaseLines == 2

\* most blocks opened around a line of the nesting-depth specification
MaxOpen == 7

\* longest document (lines) of the range specification
MaxRangeLines == 2

\* longest document (lines) of the declaration-order specification
MaxOrderLines == 3

\* longest document (lines) of the identifier-scan specification
MaxIdLines == 2

\* most calls of parseDocument of the repeated-call specification
MaxCalls == 3

\* longest document (lines) of the repeated-call specification
MaxCallLines == 2

\* the preview specification: the time (ms) it runs for and the number of
\* editor events (edits, preview commands, disposals of the panel)
MaxTime == 1250

MaxEvents == 4

\* the preview specification: the longest time (ms) that passes in one step
TimeStep == 250

(***************************************************************************)
(* Strings: JavaScript string primitives used by the checks                *)
(***************************************************************************)
\* line[j] with a 0-based index; "" stands for undefined (out of range)
CharAt(s, j) == IF j >= 0 /\ j < Len(s) THEN SubSeq(s, j + 1, j + 1) ELSE ""

\* s.substring(from) with a 0-based index
From(s, j) == SubSeq(s, j + 1, Len(s))

WhiteSpace == {" ", "\t", "\r", "\n", "\f"}

IsSpace(c) == c \in WhiteSpace

LowerLetters ==
    {"a","b","c","d","e","f","g","h","i","j","k","l","m",
     "n","o","p","q","r","s","t","u","v","w","x","y","z"}

UpperLetters ==
    {"A","B","C","D","E","F","G","H","I","J","K","L","M",
     "N","O","P","Q","R","S","T","U","V","W","X","Y","Z"}

Digits == {"0","1","2","3","4","5","6","7","8","9"}

\* the regular expression class \w
WordChars == LowerLetters \cup UpperLetters \cup Digits \cup {"_"}

IsWordChar(c) == c \in WordChars

LowerOf ==
    [c \in UpperLetters |->
       CASE c = "A" -> "a" [] c = "B" -> "b" [] c = "C" -> "c" [] c = "D" -> "d"
         [] c = "E" -> "e" [] c = "F" -> "f" [] c = "G" -> "g" [] c = "H" -> "h"
         [] c = "I" -> "i" [] c = "J" -> "j" [] c = "K" -> "k" [] c = "L" -> "l"
         [] c = "M" -> "m" [] c = "N" -> "n" [] c = "O" -> "o" [] c = "P" -> "p"
         [] c = "Q" -> "q" [] c = "R" -> "r" [] c = "S" -> "s" [] c = "T" -> "t"
         [] c = "U" -> "u" [] c = "V" -> "v" [] c = "W" -> "w" [] c = "X" -> "x"
         [] c = "Y" -> "y" [] c = "Z" -> "z"]

\* s.toLowerCase(), character by character, the two halves of s apart
RECURSIVE ToLowerCase(_)
ToLowerCase(s) ==
    IF Len(s) = 0 THEN ""
    ELSE IF Len(s) = 1 THEN (IF s \in UpperLetters THEN LowerOf[s] ELSE s)
    ELSE ToLowerCase(SubSeq(s, 1, Len(s) \div 2))
           \o ToLowerCase(SubSeq(s, Len(s) \div 2 + 1, Len(s)))

\* the least member of a non-empty set of integers
Least(S) == CHOOSE x \in S : \A y \in S : x <= y

\* the position after the longest run of characters of class that starts at
\* p: the least q >= p with s[q] outside class or q >= s.length
SpanEnd(s, p, class) ==
    IF p >= Len(s) THEN p
    ELSE Least({q \in p..Len(s) : q = Len(s) \/ CharAt(s, q) \notin class})

\* the position before the longest run of characters of class that ends
\* before e: the least q <= e with s[q..e) all in class
RunStart(s, e, class) ==
    IF e <= 0 THEN e
    ELSE Least({q \in 0..e : \A r \in q..(e - 1) : CharAt(s, r) \in class})

TrimStart(s) == From(s, SpanEnd(s, 0, WhiteSpace))

TrimEnd(s) == SubSeq(s, 1, RunStart(s, Len(s), WhiteSpace))

Trim(s) == TrimEnd(TrimStart(s))

StartsWith(s, p) == Len(s) >= Len(p) /\ SubSeq(s, 1, Len(p)) = p

EndsWith(s, p) ==
    Len(s) >= Len(p) /\ SubSeq(s, Len(s) - Len(p) + 1, Len(s)) = p

\* s.indexOf(p, from): 0-based index of the first occurrence at or after
\* from, -1 when there is none
IndexOfFrom(s, p, from) ==
    LET first == IF from < 0 THEN 0 ELSE from
        found == {k \in first..(Len(s) - Len(p)) : SubSeq(s, k + 1, k + Len(p)) = p}
    IN  IF found = {} THEN -1 ELSE Least(found)

IndexOf(s, p) == IndexOfFrom(s, p, 0)

Includes(s, p) == IndexOf(s, p) >= 0

\* the statements of a loop iteration have run when the next one starts:
\* the value an iteration leaves is computed, not carried along unevaluated
Settled(value) == value = value

\* text.split("\n")
RECURSIVE Split(_)
Split(text) ==
    LET k == IndexOf(text, "\n")
    IN  IF k < 0 THEN <<text>>
        ELSE <<SubSeq(text, 1, k)>> \o Split(From(text, k + 1))

(***************************************************************************)
(* Diagnostics                                                             *)
(***************************************************************************)
Error == "Error"
Warning == "Warning"

\* The checks only push onto the array they are handed and never read it:
\* the result of a check is the array handed in followed by its own reports.

\* new vscode.Diagnostic(new vscode.Range(sl, sc, el, ec), message, severity)
Diagnostic(sl, sc, el, ec, message, severity) ==
    [startLine |-> sl, startCol |-> sc, endLine |-> el, endCol |-> ec,
     message |-> message, severity |-> severity]

\* lines[i] with the 0-based index of the source
LineAt(ls, i) == ls[i + 1]

(***************************************************************************)
(* checkBraceBalance                                                       *)
(***************************************************************************)
\* the inner while loop that skips a string: returns the index of the
\* closing quote, or an index >= line.length when the string is not closed
RECURSIVE SkipString(_, _)
SkipString(line, j) ==
    IF j < Len(line) /\ CharAt(line, j) # "\""
    THEN SkipString(line, IF CharAt(line, j) = "\\" THEN j + 2 ELSE j + 1)
    ELSE j

\* BraceIter with the reset of the depth left out: after a stray '}' the
\* depth stays negative
BraceIter_NoReset(line, i, st) ==
    LET j == st.j
        c == CharAt(line, j)
        n == CharAt(line, j + 1)
    IN  IF st.inBlockComment
        THEN IF c = "*" /\ n = "/"
             THEN [st EXCEPT !.inBlockComment = FALSE, !.j = j + 2]
             ELSE [st EXCEPT !.j = j + 1]
        ELSE IF c = "/" /\ n = "*"
        THEN [st EXCEPT !.inBlockComment = TRUE, !.j = j + 2]
        ELSE IF c = "/" /\ n = "/"
        THEN [st EXCEPT !.j = Len(line)]
        ELSE IF c = "\""
        THEN [st EXCEPT !.j = SkipString(line, j + 1) + 1]
        ELSE IF c = "{"
        THEN [st EXCEPT !.depth = st.depth + 1, !.j = j + 1]
        ELSE IF c = "}"
        THEN IF st.depth - 1 < 0
             THEN [st EXCEPT
                     !.diags = Append(st.diags,
                                 Diagnostic(i, j, i, j + 1,
                                            "Unexpected closing brace", Error)),
                     !.depth = st.depth - 1,
                     !.j = j + 1]
             ELSE [st EXCEPT !.depth = st.depth - 1, !.j = j + 1]
        ELSE [st EXCEPT !.j = j + 1]

\* one iteration of the inner for loop (its j++ included) on line i;
\* st = [j, depth, inBlockComment, diags]
BraceIter(line, i, st) ==
    LET j == st.j
        c == CharAt(line, j)
        n == CharAt(line, j + 1)
    IN  IF st.inBlockComment
        THEN IF c = "*" /\ n = "/"
             THEN [st EXCEPT !.inBlockComment = FALSE, !.j = j + 2]
             ELSE [st EXCEPT !.j = j + 1]
        ELSE IF c = "/" /\ n = "*"
        THEN [st EXCEPT !.inBlockComment = TRUE, !.j = j + 2]
        ELSE IF c = "/" /\ n = "/"
        THEN [st EXCEPT !.j = Len(line)]
        ELSE IF c = "\""
        THEN [st EXCEPT !.j = SkipString(line, j + 1) + 1]
        ELSE IF c = "{"
        THEN [st EXCEPT !.depth = st.depth + 1, !.j = j + 1]
        ELSE IF c = "}"
        THEN IF st.depth - 1 < 0
             THEN [st EXCEPT
                     !.diags = Append(st.diags,
                                 Diagnostic(i, j, i, j + 1,
                                            "Unexpected closing brace", Error)),
                     !.depth = 0,
                     !.j = j + 1]
             ELSE [st EXCEPT !.depth = st.depth - 1, !.j = j + 1]
        ELSE [st EXCEPT !.j = j + 1]

\* the inner for loop over one line
RECURSIVE BraceLine(_, _, _)
BraceLine(line, i, st) ==
    IF st.j < Len(line) THEN BraceLine(line, i, BraceIter(line, i, st)) ELSE st

\* the outer for loop from line i on
RECURSIVE BraceLines(_, _, _)
BraceLines(ls, i, st) ==
    IF i < Len(ls) /\ Settled(st)
    THEN BraceLines(ls, i + 1, BraceLine(LineAt(ls, i), i, [st EXCEPT !.j = 0]))
    ELSE st

\* the two reports after the loops
BraceEnd(ls, depth, inBlockComment, diags) ==
    LET lastLine == Len(ls) - 1
        d1 == IF depth > 0 /\ ~inBlockComment
              THEN Append(diags,
                     Diagnostic(lastLine, 0, lastLine, Len(LineAt(ls, lastLine)),
                                ToString(depth) \o " unclosed brace"
                                  \o (IF depth > 1 THEN "s" ELSE ""),
                                Error))
              ELSE diags
    IN  IF inBlockComment
        THEN Append(d1,
               Diagnostic(lastLine, 0, lastLine, Len(LineAt(ls, lastLine)),
                          "Unterminated block comment", Error))
        ELSE d1

checkBraceBalance(ls, diags) ==
    LET st == BraceLines(ls, 0,
                [j |-> 0, depth |-> 0, inBlockComment |-> FALSE, diags |-> <<>>])
    IN  diags \o BraceEnd(ls, st.depth, st.inBlockComment, st.diags)

(***************************************************************************)
(* checkUnclosedStrings                                                    *)
(***************************************************************************)
\* one iteration of the inner for loop (its j++ included); a line comment
\* breaks out of the loop; st = [j, inBlockComment, inString, stringStart]
StringIter(line, st) ==
    LET j == st.j
        c == CharAt(line, j)
        n == CharAt(line, j + 1)
    IN  IF st.inBlockComment
        THEN IF c = "*" /\ n = "/"
             THEN [st EXCEPT !.inBlockComment = FALSE, !.j = j + 2]
             ELSE [st EXCEPT !.j = j + 1]
        ELSE IF c = "/" /\ n = "*"
        THEN [st EXCEPT !.inBlockComment = TRUE, !.j = j + 2]
        ELSE IF c = "/" /\ n = "/"
        THEN [st EXCEPT !.j = Len(line)]
        ELSE IF c = "\""
        THEN IF st.inString
             THEN [st EXCEPT !.inString = FALSE, !.j = j + 1]
             ELSE [st EXCEPT !.inString = TRUE, !.stringStart = j, !.j = j + 1]
        ELSE IF c = "\\" /\ st.inString
        THEN [st EXCEPT !.j = j + 2]
        ELSE [st EXCEPT !.j = j + 1]

\* the inner for loop of one line
RECURSIVE StringScan(_, _)
StringScan(line, st) ==
    IF st.j < Len(line) THEN StringScan(line, StringIter(line, st)) ELSE st

\* one iteration of the outer loop: scans line i and reports it;
\* returns [inBlockComment, diags]
StringLine(ls, i, inBlockComment, diags) ==
    LET line == LineAt(ls, i)
        st == StringScan(line, [j |-> 0, inBlockComment |-> inBlockComment,
                                inString |-> FALSE, stringStart |-> 0])
    IN  [inBlockComment |-> st.inBlockComment,
         diags |-> IF st.inString /\ ~EndsWith(TrimEnd(line), "\\")
                   THEN Append(diags,
                          Diagnostic(i, st.stringStart, i, Len(line),
                                     "Unterminated string", Error))
                   ELSE diags]

RECURSIVE StringLines(_, _, _, _)
StringLines(ls, i, inBlockComment, diags) ==
    IF i < Len(ls) /\ Settled(diags)
    THEN LET r == StringLine(ls, i, inBlockComment, diags)
         IN  StringLines(ls, i + 1, r.inBlockComment, r.diags)
    ELSE [inBlockComment |-> inBlockComment, diags |-> diags]

checkUnclosedStrings(ls, diags) ==
    diags \o StringLines(ls, 0, FALSE, <<>>).diags

(***************************************************************************)
(* Regular expressions: the pieces the patterns of the checks are made of, *)
(* matched at a 0-based position p of s; -1 means no match                 *)
(***************************************************************************)
\* \s* at p: the position after the white space
SkipSpaces(s, p) == SpanEnd(s, p, WhiteSpace)

\* \w* at p (greedy): the position after the word characters
WordEnd(s, p) == SpanEnd(s, p, WordChars)

\* s.substring(from, to)
Substring(s, from, to) == SubSeq(s, from + 1, to)

\* (k1|k2|...)\b under the flag i, for alternatives made of word characters:
\* the word at p, compared in lower case, is one of the keywords; the
\* position after it
KeywordAt(s, p, keywords) ==
    LET e == WordEnd(s, p)
    IN  IF e > p /\ ToLowerCase(Substring(s, p, e)) \in keywords THEN e ELSE -1

\* a literal at p
LiteralAt(s, p, lit) ==
    IF p + Len(lit) <= Len(s) /\ Substring(s, p, p + Len(lit)) = lit
    THEN p + Len(lit) ELSE -1

\* (\w+)\s*=\s* at p: [id, end] or end = -1
IdPrefixAt(s, p) ==
    LET e == WordEnd(s, p)
        q == SkipSpaces(s, e)
    IN  IF e > p /\ CharAt(s, q) = "="
        THEN [id |-> Substring(s, p, e), end |-> SkipSpaces(s, q + 1)]
        ELSE [id |-> "", end |-> -1]

\* the element keywords of the diagnostic patterns, in lower case
ElementKeywords ==
    {"person", "softwaresystem", "container", "component", "deploymentnode",
     "deploymentenvironment", "infrastructurenode", "group"}

\* the view keywords of the diagnostic patterns, in lower case
ViewKeywords ==
    {"systemlandscape", "systemcontext", "container", "component",
     "deployment", "dynamic", "filtered", "custom"}

\* the test that skips comment lines and empty lines
IsSkipped(trimmed) ==
    StartsWith(trimmed, "//") \/ StartsWith(trimmed, "/*") \/ trimmed = ""

\* /^\s*(\w+)\s*=\s*(person|...|group)\b/i : [ok, id, type]
MatchDeclaration(line) ==
    LET pre == IdPrefixAt(line, SkipSpaces(line, 0))
        e   == IF pre.end < 0 THEN -1 ELSE KeywordAt(line, pre.end, ElementKeywords)
    IN  IF e < 0 THEN [ok |-> FALSE, id |-> "", type |-> ""]
        ELSE [ok |-> TRUE, id |-> pre.id, type |-> Substring(line, pre.end, e)]

\* Map.set
MapSet(m, k, v) == [x \in DOMAIN m \cup {k} |-> IF x = k THEN v ELSE m[x]]

EmptyMap == [x \in {} |-> 0]

(***************************************************************************)
(* checkDuplicateIdentifiers                                               *)
(***************************************************************************)
\* DuplicateLine with the map entry overwritten at every declaration, so
\* that a third declaration names the second one
DuplicateLine_Overwrite(line, i, st) ==
    LET m == MatchDeclaration(line)
    IN  IF ~m.ok THEN st
        ELSE IF m.id \in DOMAIN st.identifiers
        THEN LET col == IndexOf(line, m.id)
             IN  [identifiers |-> MapSet(st.identifiers, m.id, i),
                  diags |-> Append(st.diags,
                     Diagnostic(i, col, i, col + Len(m.id),
                        "Duplicate identifier '" \o m.id
                          \o "' (first defined on line "
                          \o ToString(st.identifiers[m.id] + 1) \o ")",
                        Warning))]
        ELSE [st EXCEPT !.identifiers = MapSet(st.identifiers, m.id, i)]

\* one iteration of the loop; st = [identifiers, diags]
DuplicateLine(line, i, st) ==
    LET m == MatchDeclaration(line)
    IN  IF ~m.ok THEN st
        ELSE IF m.id \in DOMAIN st.identifiers
        THEN LET col == IndexOf(line, m.id)
             IN  [st EXCEPT !.diags = Append(st.diags,
                     Diagnostic(i, col, i, col + Len(m.id),
                        "Duplicate identifier '" \o m.id
                          \o "' (first defined on line "
                          \o ToString(st.identifiers[m.id] + 1) \o ")",
                        Warning))]
        ELSE [st EXCEPT !.identifiers = MapSet(st.identifiers, m.id, i)]

RECURSIVE DuplicateLines(_, _, _)
DuplicateLines(ls, i, st) ==
    IF i < Len(ls) /\ Settled(st)
    THEN DuplicateLines(ls, i + 1, DuplicateLine(LineAt(ls, i), i, st))
    ELSE st

checkDuplicateIdentifiers(ls, diags) ==
    diags \o DuplicateLines(ls, 0, [identifiers |-> EmptyMap, diags |-> <<>>]).diags

(***************************************************************************)
(* buildIdentifierMap                                                      *)
(***************************************************************************)
RECURSIVE IdentifierLines(_, _, _)
IdentifierLines(ls, i, identifiers) ==
    IF i < Len(ls) /\ Settled(identifiers)
    THEN LET m == MatchDeclaration(LineAt(ls, i))
         IN  IdentifierLines(ls, i + 1,
               IF m.ok
               THEN MapSet(identifiers, m.id,
                           [line |-> i, type |-> ToLowerCase(m.type)])
               ELSE identifiers)
    ELSE identifiers

buildIdentifierMap(ls) == IdentifierLines(ls, 0, EmptyMap)

(***************************************************************************)
(* checkRelationshipReferences                                             *)
(***************************************************************************)
\* /^\s*(\w+)\s*->\s*(\w+)/ : [ok, source, target]
MatchRelationship(s) ==
    LET p0 == SkipSpaces(s, 0)
        e1 == WordEnd(s, p0)
        a  == LiteralAt(s, SkipSpaces(s, e1), "->")
        p2 == IF a < 0 THEN -1 ELSE SkipSpaces(s, a)
        e2 == IF a < 0 THEN -1 ELSE WordEnd(s, p2)
    IN  IF e1 > p0 /\ a >= 0 /\ e2 > p2
        THEN [ok |-> TRUE, source |-> Substring(s, p0, e1),
              target |-> Substring(s, p2, e2)]
        ELSE [ok |-> FALSE, source |-> "", target |-> ""]

\* RelationshipLine with the self-reference test reduced to source = target
RelationshipLine_SelfUndeclared(line, i, identifierMap, diags) ==
    LET trimmed == Trim(line)
        m == MatchRelationship(trimmed)
        d1 == IF m.source \notin DOMAIN identifierMap
              THEN LET col == IndexOf(line, m.source)
                   IN  Append(diags,
                         Diagnostic(i, col, i, col + Len(m.source),
                            "Undefined source identifier '" \o m.source
                              \o "' in relationship", Error))
              ELSE diags
        d2 == IF m.target \notin DOMAIN identifierMap
              THEN LET col == IndexOfFrom(line, m.target, IndexOf(line, "->") + 2)
                   IN  Append(d1,
                         Diagnostic(i, col, i, col + Len(m.target),
                            "Undefined target identifier '" \o m.target
                              \o "' in relationship", Error))
              ELSE d1
        d3 == IF m.source = m.target
              THEN LET col == IndexOf(line, m.source)
                   IN  Append(d2,
                         Diagnostic(i, col, i, Len(line),
                            "Self-referencing relationship detected ("
                              \o m.source \o " -> " \o m.source \o ")", Warning))
              ELSE d2
    IN  IF IsSkipped(trimmed) \/ ~m.ok THEN diags ELSE d3

\* one iteration of the loop
RelationshipLine(line, i, identifierMap, diags) ==
    LET trimmed == Trim(line)
        m == MatchRelationship(trimmed)
        d1 == IF m.source \notin DOMAIN identifierMap
              THEN LET col == IndexOf(line, m.source)
                   IN  Append(diags,
                         Diagnostic(i, col, i, col + Len(m.source),
                            "Undefined source identifier '" \o m.source
                              \o "' in relationship", Error))
              ELSE diags
        d2 == IF m.target \notin DOMAIN identifierMap
              THEN LET col == IndexOfFrom(line, m.target, IndexOf(line, "->") + 2)
                   IN  Append(d1,
                         Diagnostic(i, col, i, col + Len(m.target),
                            "Undefined target identifier '" \o m.target
                              \o "' in relationship", Error))
              ELSE d1
        d3 == IF m.source = m.target /\ m.source \in DOMAIN identifierMap
              THEN LET col == IndexOf(line, m.source)
                   IN  Append(d2,
                         Diagnostic(i, col, i, Len(line),
                            "Self-referencing relationship detected ("
                              \o m.source \o " -> " \o m.source \o ")", Warning))
              ELSE d2
    IN  IF IsSkipped(trimmed) \/ ~m.ok THEN diags ELSE d3

RECURSIVE RelationshipLines(_, _, _, _)
RelationshipLines(ls, i, identifierMap, diags) ==
    IF i < Len(ls) /\ Settled(diags)
    THEN RelationshipLines(ls, i + 1, identifierMap,
                           RelationshipLine(LineAt(ls, i), i, identifierMap, diags))
    ELSE diags

checkRelationshipReferences(ls, diags, identifierMap) ==
    diags \o RelationshipLines(ls, 0, identifierMap, <<>>)

(***************************************************************************)
(* Block context stacks of the structural checks                           *)
(***************************************************************************)
\* /^keyword\b/i on the trimmed line
StartsWithKeyword(trimmed, keywords) == KeywordAt(trimmed, 0, keywords) >= 0

\* contextStack[contextStack.length - 1]; "" stands for undefined
Top(stack) == IF Len(stack) = 0 THEN "" ELSE stack[Len(stack)]

\* the number of '}' among the characters of the line from column j on
CountClosing(line, j) ==
    Cardinality({k \in j..(Len(line) - 1) : CharAt(line, k) = "}"})

\* the loop "for (const ch of lines[i]) if (ch === '}') pop unless empty"
PopClosing(stack, line) ==
    LET n == CountClosing(line, 0)
    IN  IF n >= Len(stack) THEN <<>> ELSE SubSeq(stack, 1, Len(stack) - n)

(***************************************************************************)
(* checkWorkspaceStructure                                                 *)
(***************************************************************************)
\* WorkspaceLine with the duplicate-model test made before the count is raised
WorkspaceLine_ModelCountBeforeIncrement(line, i, st) ==
    LET trimmed == Trim(line)
        isW == StartsWithKeyword(trimmed, {"workspace"})
        isM == StartsWithKeyword(trimmed, {"model"})
        isV == StartsWithKeyword(trimmed, {"views"})
        d1 == IF isW /\ st.workspaceCount + 1 > 1
              THEN LET col == IndexOf(line, "workspace")
                   IN  Append(st.diags,
                         Diagnostic(i, col, i, col + 9,
                            "Duplicate workspace block (workspace should only be declared once)",
                            Error))
              ELSE st.diags
        d2 == IF isM /\ st.modelCount > 1
              THEN LET col == IndexOf(line, "model")
                   IN  Append(d1,
                         Diagnostic(i, col, i, col + 5,
                            "Duplicate model block (model should only be declared once)",
                            Error))
              ELSE d1
        pushed == st.contextStack
                    \o (IF isW THEN <<"workspace">> ELSE <<>>)
                    \o (IF isM THEN <<"model">> ELSE <<>>)
                    \o (IF isV THEN <<"views">> ELSE <<>>)
    IN  IF IsSkipped(trimmed) THEN st
        ELSE [workspaceCount |-> st.workspaceCount + (IF isW THEN 1 ELSE 0),
              modelCount |-> st.modelCount + (IF isM THEN 1 ELSE 0),
              viewsCount |-> st.viewsCount + (IF isV THEN 1 ELSE 0),
              workspaceLine |-> IF isW THEN i ELSE st.workspaceLine,
              contextStack |-> PopClosing(pushed, line),
              diags |-> d2]

\* one iteration of the loop; st = [workspaceCount, modelCount, viewsCount,
\* workspaceLine, contextStack, diags]
WorkspaceLine(line, i, st) ==
    LET trimmed == Trim(line)
        isW == StartsWithKeyword(trimmed, {"workspace"})
        isM == StartsWithKeyword(trimmed, {"model"})
        isV == StartsWithKeyword(trimmed, {"views"})
        d1 == IF isW /\ st.workspaceCount + 1 > 1
              THEN LET col == IndexOf(line, "workspace")
                   IN  Append(st.diags,
                         Diagnostic(i, col, i, col + 9,
                            "Duplicate workspace block (workspace should only be declared once)",
                            Error))
              ELSE st.diags
        d2 == IF isM /\ st.modelCount + 1 > 1
              THEN LET col == IndexOf(line, "model")
                   IN  Append(d1,
                         Diagnostic(i, col, i, col + 5,
                            "Duplicate model block (model should only be declared once)",
                            Error))
              ELSE d1
        pushed == st.contextStack
                    \o (IF isW THEN <<"workspace">> ELSE <<>>)
                    \o (IF isM THEN <<"model">> ELSE <<>>)
                    \o (IF isV THEN <<"views">> ELSE <<>>)
    IN  IF IsSkipped(trimmed) THEN st
        ELSE [workspaceCount |-> st.workspaceCount + (IF isW THEN 1 ELSE 0),
              modelCount |-> st.modelCount + (IF isM THEN 1 ELSE 0),
              viewsCount |-> st.viewsCount + (IF isV THEN 1 ELSE 0),
              workspaceLine |-> IF isW THEN i ELSE st.workspaceLine,
              contextStack |-> PopClosing(pushed, line),
              diags |-> d2]

RECURSIVE WorkspaceLines(_, _, _)
WorkspaceLines(ls, i, st) ==
    IF i < Len(ls) /\ Settled(st)
    THEN WorkspaceLines(ls, i + 1, WorkspaceLine(LineAt(ls, i), i, st))
    ELSE st

\* the three reports after the loop; st is the state the loop ends in
WorkspaceEnd(ls, st) ==
    LET d1 == IF st.workspaceCount = 0
              THEN Append(st.diags,
                     Diagnostic(0, 0, 0, 0,
                        "Missing workspace block (workspace declaration is required)",
                        Error))
              ELSE st.diags
        d2 == IF st.modelCount = 0 /\ st.workspaceCount > 0
              THEN Append(d1,
                     Diagnostic(st.workspaceLine, 0, st.workspaceLine,
                        Len(LineAt(ls, st.workspaceLine)),
                        "Missing model block (model block is required within workspace)",
                        Error))
              ELSE d1
    IN  IF st.viewsCount = 0 /\ st.workspaceCount > 0
        THEN Append(d2,
               Diagnostic(st.workspaceLine, 0, st.workspaceLine,
                  Len(LineAt(ls, st.workspaceLine)),
                  "Missing views block (views are recommended for visualization)",
                  Warning))
        ELSE d2

checkWorkspaceStructure(ls, diags) ==
    diags \o WorkspaceEnd(ls, WorkspaceLines(ls, 0,
                [workspaceCount |-> 0, modelCount |-> 0, viewsCount |-> 0,
                 workspaceLine |-> -1, contextStack |-> <<>>, diags |-> <<>>]))

(***************************************************************************)
(* checkElementPlacement                                                   *)
(***************************************************************************)
\* /^\s*(?:\w+\s*=\s*)?(person|...|group)\b/i : [ok, keyword]; the optional
\* prefix is tried first and given up when no keyword follows it
MatchElement(s) ==
    LET p0 == SkipSpaces(s, 0)
        pre == IdPrefixAt(s, p0)
        e1 == IF pre.end < 0 THEN -1 ELSE KeywordAt(s, pre.end, ElementKeywords)
        e0 == KeywordAt(s, p0, ElementKeywords)
    IN  IF e1 >= 0 THEN [ok |-> TRUE, keyword |-> Substring(s, pre.end, e1)]
        ELSE IF e0 >= 0 THEN [ok |-> TRUE, keyword |-> Substring(s, p0, e0)]
        ELSE [ok |-> FALSE, keyword |-> ""]

\* the if / else-if chain that pushes the block a line opens
PlacementPush(stack, trimmed) ==
    IF StartsWithKeyword(trimmed, {"workspace"}) THEN Append(stack, "workspace")
    ELSE IF StartsWithKeyword(trimmed, {"model"}) THEN Append(stack, "model")
    ELSE IF StartsWithKeyword(trimmed, {"views"}) THEN Append(stack, "views")
    ELSE IF StartsWithKeyword(trimmed, {"styles"}) THEN Append(stack, "styles")
    ELSE IF StartsWithKeyword(trimmed, {"softwaresystem"}) /\ Includes(trimmed, "{")
    THEN Append(stack, "softwareSystem")
    ELSE IF StartsWithKeyword(trimmed, {"container"}) /\ Includes(trimmed, "{")
    THEN Append(stack, "container")
    ELSE stack

\* the three reports on a matched element: keyword is elementMatch[1], col
\* its first column in the line
PlacementReports(i, keyword, elementType, currentContext, col, diags) ==
    diags
      \o (IF elementType = "container" /\ currentContext # "softwareSystem"
          THEN <<Diagnostic(i, col, i, col + Len(keyword),
                    "Invalid container placement (containers must be declared inside a softwareSystem block)",
                    Error)>>
          ELSE <<>>)
      \o (IF elementType = "component" /\ currentContext # "container"
          THEN <<Diagnostic(i, col, i, col + Len(keyword),
                    "Invalid component placement (components must be declared inside a container block)",
                    Error)>>
          ELSE <<>>)
      \o (IF currentContext = "views"
          THEN <<Diagnostic(i, col, i, col + Len(keyword),
                    "Invalid element placement (elements belong in the model block, not views)",
                    Error)>>
          ELSE <<>>)

\* "if (elementMatch)": m = [ok, keyword], stack the stack after the push
PlacementElement(line, i, m, stack, diags) ==
    IF m.ok
    THEN PlacementReports(i, m.keyword, ToLowerCase(m.keyword), Top(stack),
                          IndexOf(line, m.keyword), diags)
    ELSE diags

\* the loop body after the push: the element check, then the braces
PlacementStep(line, i, stack, diags) ==
    [contextStack |-> PopClosing(stack, line),
     diags |-> PlacementElement(line, i, MatchElement(Trim(line)), stack, diags)]

\* one iteration of the loop; st = [contextStack, diags]
PlacementLine(line, i, st) ==
    IF IsSkipped(Trim(line)) THEN st
    ELSE PlacementStep(line, i, PlacementPush(st.contextStack, Trim(line)),
                       st.diags)

RECURSIVE PlacementLines(_, _, _)
PlacementLines(ls, i, st) ==
    IF i < Len(ls) /\ Settled(st)
    THEN PlacementLines(ls, i + 1, PlacementLine(LineAt(ls, i), i, st))
    ELSE st

checkElementPlacement(ls, diags) ==
    diags \o PlacementLines(ls, 0, [contextStack |-> <<>>, diags |-> <<>>]).diags

(***************************************************************************)
(* checkViewScopes                                                         *)
(***************************************************************************)
\* \s+ at p: the position after the white space, -1 when there is none
SpacesAt(s, p) == IF SkipSpaces(s, p) > p THEN SkipSpaces(s, p) ELSE -1

\* /^\s*(systemLandscape|...|custom)\s+(?:(\w+)\s+)?/i : [ok, keyword,
\* scope, end]; scope "" stands for undefined, end is the position after
\* the match
MatchViewScope(s) ==
    LET p0 == SkipSpaces(s, 0)
        e == KeywordAt(s, p0, ViewKeywords)
        p1 == IF e < 0 THEN -1 ELSE SpacesAt(s, e)
        e2 == IF p1 < 0 THEN -1 ELSE WordEnd(s, p1)
        p2 == IF p1 < 0 \/ e2 = p1 THEN -1 ELSE SpacesAt(s, e2)
    IN  IF p1 < 0 THEN [ok |-> FALSE, keyword |-> "", scope |-> "", end |-> -1]
        ELSE IF p2 < 0
        THEN [ok |-> TRUE, keyword |-> Substring(s, p0, e), scope |-> "", end |-> p1]
        ELSE [ok |-> TRUE, keyword |-> Substring(s, p0, e),
              scope |-> Substring(s, p1, e2), end |-> p2]

\* the two reports with the scope type compared as written in the message,
\* not lower-cased as buildIdentifierMap stores it
ScopeTypeReports_CaseSensitiveType(i, viewType, scope, scopeType, col, diags) ==
    diags
      \o (IF viewType = "container" /\ scopeType # "softwareSystem"
          THEN <<Diagnostic(i, col, i, col + Len(scope),
                    "Type mismatch: container view requires a softwareSystem scope, but '"
                      \o scope \o "' is a " \o scopeType, Error)>>
          ELSE <<>>)
      \o (IF viewType = "component" /\ scopeType # "container"
          THEN <<Diagnostic(i, col, i, col + Len(scope),
                    "Type mismatch: component view requires a container scope, but '"
                      \o scope \o "' is a " \o scopeType, Error)>>
          ELSE <<>>)

\* the two type-mismatch reports; scopeType is identifierMap.get(scope).type
ScopeTypeReports(i, viewType, scope, scopeType, col, diags) ==
    diags
      \o (IF viewType = "container" /\ scopeType # "softwaresystem"
          THEN <<Diagnostic(i, col, i, col + Len(scope),
                    "Type mismatch: container view requires a softwareSystem scope, but '"
                      \o scope \o "' is a " \o scopeType, Error)>>
          ELSE <<>>)
      \o (IF viewType = "component" /\ scopeType # "container"
          THEN <<Diagnostic(i, col, i, col + Len(scope),
                    "Type mismatch: component view requires a container scope, but '"
                      \o scope \o "' is a " \o scopeType, Error)>>
          ELSE <<>>)

\* the reports on a matched view header: keyword and scope are viewMatch[1]
\* and viewMatch[2] ("" for undefined), kcol and col their first columns
ViewScopeReports(i, keyword, viewType, scope, kcol, col, identifierMap, diags) ==
    IF viewType \in {"systemcontext", "container", "component"}
    THEN IF scope = ""
         THEN Append(diags,
                Diagnostic(i, kcol, i, kcol + Len(keyword),
                   "Missing scope for " \o keyword
                     \o " view (scope identifier is required)", Error))
         ELSE IF scope \notin DOMAIN identifierMap
         THEN Append(diags,
                Diagnostic(i, col, i, col + Len(scope),
                   "Undefined scope identifier '" \o scope \o "' in view", Error))
         ELSE ScopeTypeReports(i, viewType, scope, identifierMap[scope].type,
                               col, diags)
    ELSE IF scope # "" /\ scope \notin DOMAIN identifierMap
    THEN Append(diags,
           Diagnostic(i, col, i, col + Len(scope),
              "Undefined scope identifier '" \o scope \o "' in view", Error))
    ELSE diags

\* "if (viewMatch)": m = [ok, keyword, scope, end]
ViewScopeMatched(line, i, m, identifierMap, diags) ==
    IF m.ok
    THEN ViewScopeReports(i, m.keyword, ToLowerCase(m.keyword), m.scope,
                          IndexOf(line, m.keyword), IndexOf(line, m.scope),
                          identifierMap, diags)
    ELSE diags

\* ViewScopeLine with the scope looked up among the declarations of the
\* lines before line i only
ViewScopeLine_DeclaredBefore(line, i, identifierMap, diags) ==
    IF IsSkipped(Trim(line)) THEN diags
    ELSE ViewScopeMatched(line, i, MatchViewScope(Trim(line)),
           [id \in {x \in DOMAIN identifierMap : identifierMap[x].line < i}
              |-> identifierMap[id]],
           diags)

\* one iteration of the loop
ViewScopeLine(line, i, identifierMap, diags) ==
    IF IsSkipped(Trim(line)) THEN diags
    ELSE ViewScopeMatched(line, i, MatchViewScope(Trim(line)), identifierMap, diags)

RECURSIVE ViewScopeLines(_, _, _, _)
ViewScopeLines(ls, i, identifierMap, diags) ==
    IF i < Len(ls) /\ Settled(diags)
    THEN ViewScopeLines(ls, i + 1, identifierMap,
                        ViewScopeLine(LineAt(ls, i), i, identifierMap, diags))
    ELSE diags

checkViewScopes(ls, diags, identifierMap) ==
    diags \o ViewScopeLines(ls, 0, identifierMap, <<>>)

(***************************************************************************)
(* checkAdditionalSyntax                                                   *)
(***************************************************************************)
\* /\w+\s*[-=]+>\s*$/ anywhere in s: read from the end of s, the classes of
\* the pattern being disjoint
MatchInvalidArrow(s) ==
    LET e0 == RunStart(s, Len(s), WhiteSpace)
        e1 == IF e0 > 0 /\ CharAt(s, e0 - 1) = ">" THEN e0 - 1 ELSE -1
        e2 == IF e1 < 0 THEN -1 ELSE RunStart(s, e1, {"-", "="})
        e3 == IF e2 < 0 THEN -1 ELSE RunStart(s, e2, WhiteSpace)
    IN  /\ e1 >= 0
        /\ e2 < e1
        /\ e3 > 0
        /\ IsWordChar(CharAt(s, e3 - 1))

\* /^\s*autoLayout\s+(\w+)/i : the direction token, "" when no match
MatchAutoLayout(s) ==
    LET p0 == SkipSpaces(s, 0)
        e == KeywordAt(s, p0, {"autolayout"})
        p1 == IF e < 0 THEN -1 ELSE SpacesAt(s, e)
    IN  IF p1 < 0 THEN "" ELSE Substring(s, p1, WordEnd(s, p1))

\* "([^"]*)" at the end m.end of a match m of the view header: [ok, key]
ViewKeyAfter(s, m) ==
    LET q == IF m.ok /\ CharAt(s, m.end) = "\"" THEN m.end ELSE -1
        close == IF q < 0 THEN -1 ELSE IndexOfFrom(s, "\"", q + 1)
    IN  IF close < 0 THEN [ok |-> FALSE, key |-> ""]
        ELSE [ok |-> TRUE, key |-> Substring(s, q + 1, close)]

\* /^\s*(?:systemLandscape|...|custom)\s+(?:\w+\s+)?"([^"]*)"/i :
\* [ok, key]
MatchViewKey(s) == ViewKeyAfter(s, MatchViewScope(s))

ValidDirections == {"tb", "bt", "lr", "rl"}

\* the nesting limit of the check
MaxNesting == 6

\* the context pushed by the line: workspace, model and views only
SyntaxPush(stack, trimmed) ==
    IF StartsWithKeyword(trimmed, {"workspace"}) THEN Append(stack, "workspace")
    ELSE IF StartsWithKeyword(trimmed, {"model"}) THEN Append(stack, "model")
    ELSE IF StartsWithKeyword(trimmed, {"views"}) THEN Append(stack, "views")
    ELSE stack

\* the nesting-depth report
NestingCheck(line, i, stack, diags) ==
    IF Len(stack) > MaxNesting
    THEN Append(diags,
           Diagnostic(i, 0, i, Len(line),
              "Excessive nesting depth detected (consider simplifying structure)",
              Warning))
    ELSE diags

\* the report of an arrow without a target
ArrowCheck(line, i, trimmed, diags) ==
    IF Includes(trimmed, "->") /\ MatchInvalidArrow(trimmed)
    THEN Append(diags,
           Diagnostic(i, IndexOf(line, "->"), i, Len(line),
              "Incomplete relationship (missing target identifier)", Error))
    ELSE diags

\* the report of an autoLayout direction that is none of the four
AutoLayoutCheck(line, i, token, diags) ==
    LET direction == ToLowerCase(token)
        col == IndexOf(line, token)
    IN  IF token # "" /\ direction \notin ValidDirections
        THEN Append(diags,
               Diagnostic(i, col, i, col + Len(token),
                  "Invalid autoLayout direction '" \o direction
                    \o "'. Valid options: tb, bt, lr, rl", Error))
        ELSE diags

\* the report of a view key seen before; v = [ok, key]
ViewKeyCheck(line, i, v, viewKeys, diags) ==
    LET col == IndexOf(line, v.key)
    IN  IF v.ok /\ v.key \in viewKeys
        THEN Append(diags,
               Diagnostic(i, col, i, col + Len(v.key),
                  "Duplicate view key '" \o v.key \o "'", Warning))
        ELSE diags

\* the statements of the loop body after the skip test, in the order of
\* the source; st = [contextStack, viewKeys, diags]
SyntaxChecks(line, i, trimmed, stack, v, st) ==
    [contextStack |-> PopClosing(stack, line),
     viewKeys |-> IF v.ok THEN st.viewKeys \cup {v.key} ELSE st.viewKeys,
     diags |-> ViewKeyCheck(line, i, v, st.viewKeys,
                 AutoLayoutCheck(line, i, MatchAutoLayout(trimmed),
                   ArrowCheck(line, i, trimmed,
                     NestingCheck(line, i, stack, st.diags))))]

\* one iteration of the loop
SyntaxLine(line, i, st) ==
    IF IsSkipped(Trim(line)) THEN st
    ELSE SyntaxChecks(line, i, Trim(line),
                      SyntaxPush(st.contextStack, Trim(line)),
                      MatchViewKey(Trim(line)), st)

RECURSIVE SyntaxLines(_, _, _)
SyntaxLines(ls, i, st) ==
    IF i < Len(ls) /\ Settled(st)
    THEN SyntaxLines(ls, i + 1, SyntaxLine(LineAt(ls, i), i, st))
    ELSE st

checkAdditionalSyntax(ls, diags) ==
    diags \o SyntaxLines(ls, 0, [contextStack |-> <<>>, viewKeys |-> {},
                               diags |-> <<>>]).diags

(***************************************************************************)
(* checkContextAwarePlacement                                              *)
(***************************************************************************)
\* /^\s*(systemLandscape|...|custom)\b/i : the keyword, "" when no match
MatchViewKeyword(s) ==
    LET p0 == SkipSpaces(s, 0)
        e == KeywordAt(s, p0, ViewKeywords)
    IN  IF e < 0 THEN "" ELSE Substring(s, p0, e)

\* /^\s*(element|relationship)\s+"/i
MatchStyleRule(s) ==
    LET e == KeywordAt(s, SkipSpaces(s, 0), {"element", "relationship"})
        p1 == IF e < 0 THEN -1 ELSE SpacesAt(s, e)
    IN  p1 >= 0 /\ CharAt(s, p1) = "\""

\* /^\s*include\b/i
MatchInclude(s) == KeywordAt(s, SkipSpaces(s, 0), {"include"}) >= 0

\* the if / else-if chain that pushes the block a line opens
ContextPush(stack, trimmed) ==
    IF StartsWithKeyword(trimmed, {"workspace"}) THEN Append(stack, "workspace")
    ELSE IF StartsWithKeyword(trimmed, {"model"}) THEN Append(stack, "model")
    ELSE IF StartsWithKeyword(trimmed, {"views"}) THEN Append(stack, "views")
    ELSE IF StartsWithKeyword(trimmed, {"styles"}) THEN Append(stack, "styles")
    ELSE IF MatchViewKeyword(trimmed) # "" /\ Includes(trimmed, "{")
    THEN Append(stack, "view")
    ELSE stack

\* one iteration of the loop; st = [contextStack, diags]
ContextLine(line, i, st) ==
    LET trimmed == Trim(line)
        stack == ContextPush(st.contextStack, trimmed)
        currentContext == Top(stack)
        d1 == IF MatchRelationship(trimmed).ok /\ currentContext = "views"
              THEN Append(st.diags,
                     Diagnostic(i, 0, i, Len(line),
                        "Invalid relationship placement (relationships belong in the model block, not views)",
                        Error))
              ELSE st.diags
        keyword == MatchViewKeyword(trimmed)
        d2 == IF keyword # "" /\ currentContext = "model"
              THEN LET col == IndexOf(line, keyword)
                   IN  Append(d1,
                         Diagnostic(i, col, i, col + Len(keyword),
                            "Invalid view placement (views belong in the views block, not model)",
                            Error))
              ELSE d1
        d3 == IF MatchStyleRule(trimmed) /\ currentContext # "styles"
              THEN Append(d2,
                     Diagnostic(i, 0, i, Len(line),
                        "Invalid style rule placement (style rules must be inside the styles block)",
                        Error))
              ELSE d2
        d4 == IF MatchInclude(trimmed) /\ currentContext # "view"
              THEN LET col == IndexOf(line, "include")
                   IN  Append(d3,
                         Diagnostic(i, col, i, col + 7,
                            "Invalid include placement (include directives must be inside a view block)",
                            Error))
              ELSE d3
    IN  IF IsSkipped(trimmed) THEN st
        ELSE [contextStack |-> PopClosing(stack, line), diags |-> d4]

RECURSIVE ContextLines(_, _, _)
ContextLines(ls, i, st) ==
    IF i < Len(ls) /\ Settled(st)
    THEN ContextLines(ls, i + 1, ContextLine(LineAt(ls, i), i, st))
    ELSE st

checkContextAwarePlacement(ls, diags) ==
    diags \o ContextLines(ls, 0, [contextStack |-> <<>>, diags |-> <<>>]).diags

(***************************************************************************)
(* levenshteinDistance, findClosestKeyword, checkKeywordSpelling           *)
(***************************************************************************)
Min3(x, y, z) ==
    IF x <= y /\ x <= z THEN x ELSE IF y <= z THEN y ELSE z

\* row i of the matrix from row i-1 (prev); acc holds the columns filled so
\* far, 0..j-1, and the inner loop ends when column a.length is filled
RECURSIVE LevRow(_, _, _, _, _)
LevRow(a, b, i, prev, acc) ==
    IF Len(acc) > Len(a) THEN acc
    ELSE LET j == Len(acc)
             cell == IF CharAt(b, i - 1) = CharAt(a, j - 1)
                     THEN prev[j]
                     ELSE Min3(prev[j] + 1, acc[j] + 1, prev[j + 1] + 1)
         IN  LevRow(a, b, i, prev, Append(acc, cell))

\* the outer loop: matrix holds the rows filled so far, 0..i-1, and the
\* loop ends when row b.length is filled
RECURSIVE LevRows(_, _, _)
LevRows(a, b, matrix) ==
    IF Len(matrix) > Len(b) THEN matrix
    ELSE LevRows(a, b,
           Append(matrix,
                  LevRow(a, b, Len(matrix), matrix[Len(matrix)], <<Len(matrix)>>)))

\* matrix[b.length][a.length]; row 0 is matrix[0][j] = j
levenshteinDistance(a, b) ==
    LevRows(a, b, <<[j \in 1..(Len(a) + 1) |-> j - 1]>>)[Len(b) + 1][Len(a) + 1]

\* the suggestion threshold
Threshold == 3

\* ClosestFrom with a later keyword at the same distance replacing the
\* earlier one
RECURSIVE ClosestFrom_LastWins(_, _, _, _, _)
ClosestFrom_LastWins(input, keywords, k, minDistance, closest) ==
    IF k > Len(keywords) THEN closest
    ELSE LET distance == levenshteinDistance(ToLowerCase(input),
                                             ToLowerCase(keywords[k]))
         IN  IF (minDistance < 0 \/ distance <= minDistance) /\ distance <= Threshold
             THEN ClosestFrom_LastWins(input, keywords, k + 1, distance, keywords[k])
             ELSE ClosestFrom_LastWins(input, keywords, k + 1, minDistance, closest)

\* the loop over the keywords from index k on; "" stands for null and
\* minDistance -1 for Infinity
RECURSIVE ClosestFrom(_, _, _, _, _)
ClosestFrom(input, keywords, k, minDistance, closest) ==
    IF k > Len(keywords) THEN closest
    ELSE LET distance == levenshteinDistance(ToLowerCase(input),
                                             ToLowerCase(keywords[k]))
         IN  IF (minDistance < 0 \/ distance < minDistance) /\ distance <= Threshold
             THEN ClosestFrom(input, keywords, k + 1, distance, keywords[k])
             ELSE ClosestFrom(input, keywords, k + 1, minDistance, closest)

findClosestKeyword(input, keywords) == ClosestFrom(input, keywords, 1, -1, "")

validElementTypes ==
    <<"person", "softwareSystem", "softwaresystem", "container", "component",
      "deploymentNode", "deploymentEnvironment", "infrastructureNode", "group">>

validViewTypes ==
    <<"systemLandscape", "systemContext", "container", "component",
      "deployment", "dynamic", "filtered", "custom">>

Range(seq) == {seq[k] : k \in 1..Len(seq)}

reservedKeywords ==
    {"workspace", "model", "views", "styles"}
      \cup Range(validElementTypes) \cup Range(validViewTypes)
      \cup {"include", "exclude", "autoLayout"}

\* /^\s*(?:\w+\s*=\s*)?(\w+)\s+"/i : the keyword, "" when no match; the
\* optional prefix is tried first and given up when the rest does not follow
MatchSpelledKeyword(s) ==
    LET p0 == SkipSpaces(s, 0)
        pre == IdPrefixAt(s, p0)
        KeywordFrom(p) ==
            LET e == WordEnd(s, p)
                q == IF e > p THEN SpacesAt(s, e) ELSE -1
            IN  IF q >= 0 /\ CharAt(s, q) = "\"" THEN Substring(s, p, e) ELSE ""
        withPrefix == IF pre.end < 0 THEN "" ELSE KeywordFrom(pre.end)
    IN  IF withPrefix # "" THEN withPrefix ELSE KeywordFrom(p0)

\* one iteration of the loop
SpellingLine(line, i, diags) ==
    LET trimmed == Trim(line)
        keyword == MatchSpelledKeyword(trimmed)
        suggestion == findClosestKeyword(keyword, validElementTypes \o validViewTypes)
        d1 == IF /\ keyword # ""
                 /\ keyword \notin Range(validElementTypes)
                 /\ keyword \notin Range(validViewTypes)
                 /\ keyword \notin {"workspace", "model", "views", "styles"}
                 /\ suggestion # ""
              THEN LET col == IndexOf(line, keyword)
                   IN  Append(diags,
                         Diagnostic(i, col, i, col + Len(keyword),
                            "Unknown keyword '" \o keyword \o "'. Did you mean '"
                              \o suggestion \o "'?", Error))
              ELSE diags
        pre == IdPrefixAt(trimmed, SkipSpaces(trimmed, 0))
    IN  IF IsSkipped(trimmed) THEN diags
        ELSE IF pre.end >= 0 /\ pre.id \in reservedKeywords
        THEN LET col == IndexOf(line, pre.id)
             IN  Append(d1,
                   Diagnostic(i, col, i, col + Len(pre.id),
                      "Reserved keyword '" \o pre.id
                        \o "' cannot be used as an identifier", Error))
        ELSE d1

RECURSIVE SpellingLines(_, _, _)
SpellingLines(ls, i, diags) ==
    IF i < Len(ls) /\ Settled(diags)
    THEN SpellingLines(ls, i + 1, SpellingLine(LineAt(ls, i), i, diags))
    ELSE diags

checkKeywordSpelling(ls, diags) == diags \o SpellingLines(ls, 0, <<>>)

(***************************************************************************)
(* updateDiagnostics: the list handed to diagnosticCollection.set          *)
(***************************************************************************)
\* the ten checks on the one array, innermost first, in the order the
\* handler calls them
runChecks(ls, identifierMap) ==
    checkKeywordSpelling(ls,
      checkContextAwarePlacement(ls,
        checkViewScopes(ls,
          checkRelationshipReferences(ls,
            checkAdditionalSyntax(ls,
              checkElementPlacement(ls,
                checkWorkspaceStructure(ls,
                  checkDuplicateIdentifiers(ls,
                    checkUnclosedStrings(ls,
                      checkBraceBalance(ls, <<>>)))))),
            identifierMap),
          identifierMap)))

computeDiagnostics(ls) == runChecks(ls, buildIdentifierMap(ls))

(***************************************************************************)
(* parseDocument (parser.ts)                                               *)
(***************************************************************************)
\* an optional value: <<>> is undefined, <<v>> is the value v
Undefined == <<>>

Some(v) == <<v>>

\* "([^"]*)" at p: [ok, value, end]; needs the opening and a closing quote
QuotedAt(s, p) ==
    LET close == IndexOfFrom(s, "\"", p + 1)
    IN  IF p >= 0 /\ CharAt(s, p) = "\"" /\ close >= 0
        THEN [ok |-> TRUE, value |-> Substring(s, p + 1, close), end |-> close + 1]
        ELSE [ok |-> FALSE, value |-> "", end |-> p]

\* (?:"([^"]*)")? at p: the group, undefined when the quoted text is absent
OptionalQuoted(s, p) ==
    IF QuotedAt(s, p).ok THEN Some(QuotedAt(s, p).value) ELSE Undefined

\* /^workspace\s+"([^"]*)"/i : [ok, name]
MatchWorkspaceName(s) ==
    LET e == IF Len(s) >= 9 /\ ToLowerCase(SubSeq(s, 1, 9)) = "workspace"
             THEN 9 ELSE -1
        p == IF e < 0 THEN -1 ELSE SpacesAt(s, e)
    IN  [ok |-> QuotedAt(s, p).ok, name |-> QuotedAt(s, p).value]

\* the rest of ELEMENT_PATTERN after the optional prefix, at p with the
\* identifier id of the prefix: (person|...|group)\s+(?:"([^"]*)")?
ElementAt(s, p, id) ==
    LET e == KeywordAt(s, p, ElementKeywords)
        q == IF e < 0 THEN -1 ELSE SpacesAt(s, e)
    IN  IF q < 0 THEN [ok |-> FALSE, id |-> Undefined, keyword |-> "", name |-> Undefined]
        ELSE [ok |-> TRUE, id |-> id, keyword |-> Substring(s, p, e),
              name |-> OptionalQuoted(s, q)]

\* ELEMENT_PATTERN: [ok, id, keyword, name] are the match and its groups 1,
\* 2 and 3; the optional prefix 'id =' is tried first and given up when the
\* keyword does not follow it
ELEMENT_PATTERN(s) ==
    LET p0 == SkipSpaces(s, 0)
        pre == IdPrefixAt(s, p0)
    IN  IF pre.end >= 0 /\ ElementAt(s, pre.end, Some(pre.id)).ok
        THEN ElementAt(s, pre.end, Some(pre.id))
        ELSE ElementAt(s, p0, Undefined)

ELEMENT_TYPE_MAP ==
    [k \in ElementKeywords |->
       CASE k = "person" -> "person"
         [] k = "softwaresystem" -> "softwareSystem"
         [] k = "container" -> "container"
         [] k = "component" -> "component"
         [] k = "deploymentnode" -> "deploymentNode"
         [] k = "deploymentenvironment" -> "deploymentNode"
         [] k = "infrastructurenode" -> "infrastructureNode"
         [] k = "group" -> "group"]

VIEW_TYPE_MAP ==
    [k \in ViewKeywords |->
       CASE k = "systemlandscape" -> "systemLandscape"
         [] k = "systemcontext" -> "systemContext"
         [] k = "container" -> "container"
         [] k = "component" -> "component"
         [] k = "deployment" -> "deployment"
         [] k = "dynamic" -> "dynamic"
         [] k = "filtered" -> "filtered"
         [] k = "custom" -> "custom"]

\* map[key.toLowerCase()] || fallback
Lookup(map, key, fallback) ==
    IF ToLowerCase(key) \in DOMAIN map THEN map[ToLowerCase(key)] ELSE fallback

\* s.replace(/\s+/g, '')
RECURSIVE RemoveWhiteSpace(_)
RemoveWhiteSpace(s) ==
    IF Len(s) = 0 THEN ""
    ELSE IF Len(s) = 1 THEN (IF s \in WhiteSpace THEN "" ELSE s)
    ELSE RemoveWhiteSpace(SubSeq(s, 1, Len(s) \div 2))
           \o RemoveWhiteSpace(SubSeq(s, Len(s) \div 2 + 1, Len(s)))

\* elementMatch[1] || elementMatch[3]?.replace(/\s+/g, '') || ''
ElementIdentifier(id, name) ==
    IF id # Undefined THEN id[1]
    ELSE IF name # Undefined THEN RemoveWhiteSpace(name[1])
    ELSE ""

\* ParsedElement with the line counted from 1
ParsedElement_OneBasedLine(m, i) ==
    [identifier |-> ElementIdentifier(m.id, m.name),
     type |-> Lookup(ELEMENT_TYPE_MAP, m.keyword, "group"),
     name |-> IF m.name # Undefined THEN m.name[1] ELSE "",
     line |-> i + 1,
     children |-> <<>>]

\* the object pushed onto elements for the match m on line i
ParsedElement(m, i) ==
    [identifier |-> ElementIdentifier(m.id, m.name),
     type |-> Lookup(ELEMENT_TYPE_MAP, m.keyword, "group"),
     name |-> IF m.name # Undefined THEN m.name[1] ELSE "",
     line |-> i,
     children |-> <<>>]

\* the tail (?:\s+"([^"]*)")? of RELATIONSHIP_PATTERN at p
OptionalSpacedQuoted(s, p) ==
    IF SpacesAt(s, p) >= 0 THEN OptionalQuoted(s, SpacesAt(s, p)) ELSE Undefined

\* the two optional groups of RELATIONSHIP_PATTERN at p, the position after
\* the target: \s*(?:"([^"]*)")?(?:\s+"([^"]*)")?
RelationshipTexts(s, p) ==
    LET d == QuotedAt(s, SkipSpaces(s, p))
    IN  IF d.ok
        THEN [description |-> Some(d.value),
              technology |-> OptionalSpacedQuoted(s, d.end)]
        ELSE [description |-> Undefined, technology |-> Undefined]

\* the position after the target of a relationship that matches
TargetEnd(s) ==
    WordEnd(s, SkipSpaces(s, LiteralAt(s, SkipSpaces(s, WordEnd(s, SkipSpaces(s, 0))), "->")))

\* the object pushed onto relationships for the line trimmed, which matches
\* RELATIONSHIP_PATTERN with the groups m
ParsedRelationship(trimmed, m, i) ==
    [source |-> m.source,
     target |-> m.target,
     description |-> RelationshipTexts(trimmed, TargetEnd(trimmed)).description,
     technology |-> RelationshipTexts(trimmed, TargetEnd(trimmed)).technology,
     line |-> i]

\* the object pushed onto views for the line trimmed, which matches
\* VIEW_PATTERN: m is the match up to the optional scope, the optional key
\* follows at m.end
ParsedView(trimmed, m, i) ==
    [type |-> Lookup(VIEW_TYPE_MAP, m.keyword, "custom"),
     scope |-> IF m.scope = "" THEN Undefined ELSE Some(m.scope),
     key |-> OptionalQuoted(trimmed, m.end),
     line |-> i]

\* ParseMatched without the continue after an element: the line is tried
\* against the view pattern as well
ParseMatched_NoContinue(trimmed, i, st) ==
    IF MatchWorkspaceName(trimmed).ok
    THEN [st EXCEPT !.workspaceName = Some(MatchWorkspaceName(trimmed).name)]
    ELSE IF ELEMENT_PATTERN(trimmed).ok
    THEN [st EXCEPT !.elements = Append(@, ParsedElement(ELEMENT_PATTERN(trimmed), i)),
                    !.views = IF MatchViewScope(trimmed).ok
                              THEN Append(@, ParsedView(trimmed, MatchViewScope(trimmed), i))
                              ELSE @]
    ELSE IF MatchRelationship(trimmed).ok
    THEN [st EXCEPT !.relationships =
                       Append(@, ParsedRelationship(trimmed, MatchRelationship(trimmed), i))]
    ELSE IF MatchViewScope(trimmed).ok
    THEN [st EXCEPT !.views = Append(@, ParsedView(trimmed, MatchViewScope(trimmed), i))]
    ELSE st

\* the body of the loop after the skip test: the first pattern that matches
\* decides, workspace name, then element, then relationship, then view
ParseMatched(trimmed, i, st) ==
    IF MatchWorkspaceName(trimmed).ok
    THEN [st EXCEPT !.workspaceName = Some(MatchWorkspaceName(trimmed).name)]
    ELSE IF ELEMENT_PATTERN(trimmed).ok
    THEN [st EXCEPT !.elements = Append(@, ParsedElement(ELEMENT_PATTERN(trimmed), i))]
    ELSE IF MatchRelationship(trimmed).ok
    THEN [st EXCEPT !.relationships =
                       Append(@, ParsedRelationship(trimmed, MatchRelationship(trimmed), i))]
    ELSE IF MatchViewScope(trimmed).ok
    THEN [st EXCEPT !.views = Append(@, ParsedView(trimmed, MatchViewScope(trimmed), i))]
    ELSE st

\* one iteration of the loop on line i; st = [i, workspaceName, elements,
\* relationships, views]
ParseStep(line, i, st) ==
    IF IsSkipped(Trim(line)) THEN [st EXCEPT !.i = i + 1]
    ELSE [ParseMatched(Trim(line), i, st) EXCEPT !.i = i + 1]

\* the locals of parseDocument before the loop
NoParse ==
    [i |-> 0, workspaceName |-> Undefined, elements |-> <<>>,
     relationships |-> <<>>, views |-> <<>>]

\* one iteration of the loop of parseDocument
ParseLine ==
    /\ pc = "parse"
    /\ parsed.i < Len(lines)
    /\ parsed' = ParseStep(LineAt(lines, parsed.i), parsed.i, parsed)
    /\ UNCHANGED <<lines, pc, scan, diagnostics, extensionVars>>

\* the loop is over: return { name: workspaceName, elements, relationships,
\* views }
ParseReturn ==
    /\ pc = "parse"
    /\ parsed.i >= Len(lines)
    /\ pc' = "returned"
    /\ UNCHANGED <<lines, scan, diagnostics, parsed, extensionVars>>

NextParse == ParseLine \/ ParseReturn

(***************************************************************************)
(* getBlockContext (parser.ts)                                             *)
(***************************************************************************)
\* a literal at p under the flag i (the literal given in lower case)
LiteralAtIgnoreCase(s, p, lit) ==
    IF p + Len(lit) <= Len(s) /\ ToLowerCase(Substring(s, p, p + Len(lit))) = lit
    THEN p + Len(lit) ELSE -1

\* /^(element|relationship)\s+"/i
MatchStyleRuleHeader(trimmed) ==
    \E keyword \in {"element", "relationship"} :
        LET e == LiteralAtIgnoreCase(trimmed, 0, keyword)
        IN  /\ e >= 0
            /\ SpacesAt(trimmed, e) >= 0
            /\ CharAt(trimmed, SpacesAt(trimmed, e)) = "\""

\* the if / else-if chain that pushes the tag of a block keyword: the tags
\* the line pushes (none or one)
BlockKeyword(trimmed) ==
    IF StartsWithKeyword(trimmed, {"workspace"}) THEN <<"workspace">>
    ELSE IF StartsWithKeyword(trimmed, {"model"}) THEN <<"model">>
    ELSE IF StartsWithKeyword(trimmed, {"views"}) THEN <<"views">>
    ELSE IF StartsWithKeyword(trimmed, {"styles"}) THEN <<"styles">>
    ELSE IF MatchStyleRuleHeader(trimmed) THEN <<"style-rule">>
    ELSE IF StartsWithKeyword(trimmed, ViewKeywords) THEN <<"view">>
    ELSE <<>>

\* one iteration of the loop: the contexts after the line
BlockLine(lineText, contexts) ==
    IF StartsWith(Trim(lineText), "//") THEN contexts
    ELSE PopClosing(contexts \o BlockKeyword(Trim(lineText)), lineText)

\* the loop for (let i = 0; i <= position.line; i++) from line i on
RECURSIVE BlockLines(_, _, _, _)
BlockLines(ls, i, last, contexts) ==
    IF i <= last /\ Settled(contexts)
    THEN BlockLines(ls, i + 1, last, BlockLine(LineAt(ls, i), contexts))
    ELSE contexts

\* the three returns after the loop
BlockOf(current) ==
    IF current = "" THEN "root"
    ELSE IF current = "style-rule" THEN "element"
    ELSE current

getBlockContext(ls, positionLine) ==
    BlockOf(Top(BlockLines(ls, 0, positionLine, <<>>)))

\* getBlockContext(document, position) for a position of the document
GetBlockContext ==
    /\ pc = "query"
    /\ \E positionLine \in 0..(Len(lines) - 1) :
          blockContext' = [line |-> positionLine,
                           context |-> getBlockContext(lines, positionLine)]
    /\ UNCHANGED <<lines, pc, scan, diagnostics, parsed, calls, editorVars,
                   previewVars>>

NextBlock == GetBlockContext

(***************************************************************************)
(* Lexical specification: the two scans on every short text                *)
(***************************************************************************)
LexAlphabet == {"{", "}", "\"", "/", "*", "\\", " ", "\n"}

RECURSIVE Texts(_, _)
Texts(alphabet, n) ==
    IF n = 0 THEN {""}
    ELSE LET shorter == Texts(alphabet, n - 1)
         IN  shorter \cup {t \o c : t \in shorter, c \in alphabet}

LexTexts == Texts(LexAlphabet, MaxText)

NoScan == [i |-> 0, j |-> 0, depth |-> 0, inBlockComment |-> FALSE]

InitLex ==
    /\ lines \in {Split(t) : t \in LexTexts}
    /\ pc = "brace"
    /\ scan = NoScan
    /\ diagnostics = <<>>
    /\ parsed = NoParse
    /\ ExtensionIdle

\* checkBraceBalance: one iteration of the inner loop
BraceChar ==
    /\ pc = "brace"
    /\ scan.i < Len(lines)
    /\ scan.j < Len(LineAt(lines, scan.i))
    /\ LET st == BraceIter(LineAt(lines, scan.i), scan.i,
                           [j |-> scan.j, depth |-> scan.depth,
                            inBlockComment |-> scan.inBlockComment,
                            diags |-> diagnostics])
       IN  /\ scan' = [i |-> scan.i, j |-> st.j, depth |-> st.depth,
                       inBlockComment |-> st.inBlockComment]
           /\ diagnostics' = st.diags
    /\ UNCHANGED <<lines, pc, parsed, extensionVars>>

\* checkBraceBalance: the inner loop ends, the outer loop goes to the next line
BraceEndOfLine ==
    /\ pc = "brace"
    /\ scan.i < Len(lines)
    /\ scan.j >= Len(LineAt(lines, scan.i))
    /\ scan' = [scan EXCEPT !.i = scan.i + 1, !.j = 0]
    /\ UNCHANGED <<lines, pc, diagnostics, parsed, extensionVars>>

\* checkBraceBalance: the reports after the loops; checkUnclosedStrings starts
BraceFinish ==
    /\ pc = "brace"
    /\ scan.i >= Len(lines)
    /\ diagnostics' = BraceEnd(lines, scan.depth, scan.inBlockComment, diagnostics)
    /\ pc' = "strings"
    /\ scan' = NoScan
    /\ UNCHANGED <<lines, parsed, extensionVars>>

\* checkUnclosedStrings: one iteration of the outer loop
StringsLine ==
    /\ pc = "strings"
    /\ scan.i < Len(lines)
    /\ LET r == StringLine(lines, scan.i, scan.inBlockComment, diagnostics)
       IN  /\ scan' = [scan EXCEPT !.i = scan.i + 1,
                                   !.inBlockComment = r.inBlockComment]
           /\ diagnostics' = r.diags
    /\ UNCHANGED <<lines, pc, parsed, extensionVars>>

\* checkUnclosedStrings returns
StringsFinish ==
    /\ pc = "strings"
    /\ scan.i >= Len(lines)
    /\ pc' = "lexdone"
    /\ UNCHANGED <<lines, scan, diagnostics, parsed, extensionVars>>

NextLex ==
    \/ BraceChar
    \/ BraceEndOfLine
    \/ BraceFinish
    \/ StringsLine
    \/ StringsFinish

SpecLex == InitLex /\ [][NextLex]_vars

(***************************************************************************)
(* Documents made of the lines of a corpus                                 *)
(***************************************************************************)
DocsOver(corpus, n) == UNION {[1..k -> corpus] : k \in 1..n}

(***************************************************************************)
(* Duplicate-identifier specification: checkDuplicateIdentifiers on every  *)
(* document of up to MaxDupLines lines of DupCorpus                        *)
(***************************************************************************)
\* each line with what it is: the identifier it binds ("" when it binds
\* none) and the column of that identifier
DupCorpus ==
    {[text |-> "a = person \"A\"",            binds |-> "a", col |-> 0],
     [text |-> "  a = softwareSystem \"B\" {", binds |-> "a", col |-> 2],
     [text |-> "b = container \"C\"",         binds |-> "b", col |-> 0],
     [text |-> "A = PERSON \"x\"",            binds |-> "A", col |-> 0],
     [text |-> "b=group",                     binds |-> "b", col |-> 0],
     [text |-> "a = personal \"x\"",          binds |-> "",  col |-> 0],
     [text |-> "a -> b",                      binds |-> "",  col |-> 0],
     [text |-> "person \"a\"",                binds |-> "",  col |-> 0]}

DupTexts == {e.text : e \in DupCorpus}

DupEntry(text) == CHOOSE e \in DupCorpus : e.text = text

InitDup ==
    /\ lines \in DocsOver(DupTexts, MaxDupLines)
    /\ pc = "start"
    /\ scan = NoScan
    /\ diagnostics = <<>>
    /\ parsed = NoParse
    /\ ExtensionIdle

RunCheckDuplicateIdentifiers ==
    /\ pc = "start"
    /\ diagnostics' = checkDuplicateIdentifiers(lines, <<>>)
    /\ pc' = "done"
    /\ UNCHANGED <<lines, scan, parsed, extensionVars>>

NextDup == RunCheckDuplicateIdentifiers

SpecDup == InitDup /\ [][NextDup]_vars

(***************************************************************************)
(* Relationship-reference specification: buildIdentifierMap and            *)
(* checkRelationshipReferences on every document of up to MaxRelLines      *)
(* lines of RelCorpus                                                      *)
(***************************************************************************)
\* each line with what it is: the identifier it declares, and the source
\* and target of the relationship it states ("" when it is none)
RelCorpus ==
    {[text |-> "a = person \"A\"",         declares |-> "a", s |-> "",  t |-> ""],
     [text |-> "b = softwareSystem \"B\"", declares |-> "b", s |-> "",  t |-> ""],
     [text |-> "c = group",                declares |-> "c", s |-> "",  t |-> ""],
     [text |-> "a -> b \"uses\"",          declares |-> "",  s |-> "a", t |-> "b"],
     [text |-> "a -> a",                   declares |-> "",  s |-> "a", t |-> "a"],
     [text |-> "c -> a",                   declares |-> "",  s |-> "c", t |-> "a"],
     [text |-> "a -> c",                   declares |-> "",  s |-> "a", t |-> "c"],
     [text |-> "  c->c",                   declares |-> "",  s |-> "c", t |-> "c"],
     [text |-> "// a -> d",                declares |-> "",  s |-> "",  t |-> ""],
     [text |-> "a = -> b",                 declares |-> "",  s |-> "",  t |-> ""]}

RelTexts == {e.text : e \in RelCorpus}

RelEntry(text) == CHOOSE e \in RelCorpus : e.text = text

InitRel ==
    /\ lines \in DocsOver(RelTexts, MaxRelLines)
    /\ pc = "start"
    /\ scan = NoScan
    /\ diagnostics = <<>>
    /\ parsed = NoParse
    /\ ExtensionIdle

RunCheckRelationshipReferences ==
    /\ pc = "start"
    /\ diagnostics' = checkRelationshipReferences(lines, <<>>,
                                                  buildIdentifierMap(lines))
    /\ pc' = "done"
    /\ UNCHANGED <<lines, scan, parsed, extensionVars>>

NextRel == RunCheckRelationshipReferences

SpecRel == InitRel /\ [][NextRel]_vars

(***************************************************************************)
(* The handler updateDiagnostics, run on a document                        *)
(***************************************************************************)
UpdateDiagnostics ==
    /\ pc = "start"
    /\ diagnostics' = computeDiagnostics(lines)
    /\ pc' = "published"
    /\ UNCHANGED <<lines, scan, parsed, extensionVars>>

(***************************************************************************)
(* View-scope specification: updateDiagnostics on every document of up to  *)
(* MaxViewLines lines of ViewCorpus                                        *)
(***************************************************************************)
\* each line with what it is: the identifier it declares and its element
\* type, or the type and the scope of the view it opens ("" when none)
ViewCorpus ==
    {[text |-> "u = person \"U\"",
      declares |-> "u", type |-> "person", view |-> "", scope |-> ""],
     [text |-> "s = softwareSystem \"S\"",
      declares |-> "s", type |-> "softwareSystem", view |-> "", scope |-> ""],
     [text |-> "c = container \"C\"",
      declares |-> "c", type |-> "container", view |-> "", scope |-> ""],
     [text |-> "container u \"k1\" {",
      declares |-> "", type |-> "", view |-> "container", scope |-> "u"],
     [text |-> "  container s \"k2\" {",
      declares |-> "", type |-> "", view |-> "container", scope |-> "s"],
     [text |-> "CONTAINER c \"k5\"",
      declares |-> "", type |-> "", view |-> "container", scope |-> "c"],
     [text |-> "component c \"k3\" {",
      declares |-> "", type |-> "", view |-> "component", scope |-> "c"],
     [text |-> "component s {",
      declares |-> "", type |-> "", view |-> "component", scope |-> "s"],
     [text |-> "systemContext u \"k4\" {",
      declares |-> "", type |-> "", view |-> "systemContext", scope |-> "u"]}

ViewTexts == {e.text : e \in ViewCorpus}

ViewEntry(text) == CHOOSE e \in ViewCorpus : e.text = text

InitViews ==
    /\ lines \in DocsOver(ViewTexts, MaxViewLines)
    /\ pc = "start"
    /\ scan = NoScan
    /\ diagnostics = <<>>
    /\ parsed = NoParse
    /\ ExtensionIdle

NextViews == UpdateDiagnostics

SpecViews == InitViews /\ [][NextViews]_vars

(***************************************************************************)
(* Element-placement specification: checkElementPlacement on every         *)
(* document of up to MaxPlaceLines lines of PlaceCorpus                    *)
(***************************************************************************)
\* each line with what it is: the element it declares, the block it opens
\* and whether it closes one ("" when none)
PlaceCorpus ==
    {[text |-> "model {",
      declares |-> "", opens |-> "model", closes |-> FALSE],
     [text |-> "s = softwareSystem \"S\" {",
      declares |-> "softwareSystem", opens |-> "softwareSystem", closes |-> FALSE],
     [text |-> "softwareSystem \"T\" {",
      declares |-> "softwareSystem", opens |-> "softwareSystem", closes |-> FALSE],
     [text |-> "c = container \"C\" {",
      declares |-> "container", opens |-> "container", closes |-> FALSE],
     [text |-> "container \"E\" {",
      declares |-> "container", opens |-> "container", closes |-> FALSE],
     [text |-> "container \"D\"",
      declares |-> "container", opens |-> "", closes |-> FALSE],
     [text |-> "component \"X\"",
      declares |-> "component", opens |-> "", closes |-> FALSE],
     [text |-> "}",
      declares |-> "", opens |-> "", closes |-> TRUE]}

PlaceTexts == {e.text : e \in PlaceCorpus}

PlaceEntry(text) == CHOOSE e \in PlaceCorpus : e.text = text

InitPlace ==
    /\ lines \in DocsOver(PlaceTexts, MaxPlaceLines)
    /\ pc = "start"
    /\ scan = NoScan
    /\ diagnostics = <<>>
    /\ parsed = NoParse
    /\ ExtensionIdle

RunCheckElementPlacement ==
    /\ pc = "start"
    /\ diagnostics' = checkElementPlacement(lines, <<>>)
    /\ pc' = "done"
    /\ UNCHANGED <<lines, scan, parsed, extensionVars>>

NextPlace == RunCheckElementPlacement

SpecPlace == InitPlace /\ [][NextPlace]_vars

(***************************************************************************)
(* Well-formed documents: updateDiagnostics on documents with a workspace, *)
(* one model and a views block, balanced braces, closed strings and every  *)
(* referenced identifier declared                                          *)
(***************************************************************************)
ModelItems ==
    {<<"    u -> s \"Uses\"">>,
     <<"    p = person \"P\"">>,
     <<"    t = softwareSystem \"T\" {",
       "      c = container \"C\"",
       "    }">>}

ViewItems ==
    {<<"    systemLandscape \"all\" {",
       "      include *",
       "      autoLayout lr",
       "    }">>,
     <<"    systemContext s \"ctx\" {",
       "      include *",
       "    }">>,
     <<"    container s \"cont\" {",
       "      include *",
       "    }">>}

\* the sequences of up to n different members of items
RECURSIVE Arrangements(_, _)
Arrangements(items, n) ==
    IF n = 0 THEN {<<>>}
    ELSE LET shorter == Arrangements(items, n - 1)
         IN  shorter \cup {Append(a, x) : a \in shorter,
                                          x \in items} 

Distinct(a) == \A x, y \in 1..Len(a) : x # y => a[x] # a[y]

RECURSIVE Flatten(_)
Flatten(a) == IF a = <<>> THEN <<>> ELSE Head(a) \o Flatten(Tail(a))

WellFormedDocs ==
    {<<"workspace \"W\" {",
       "  model {",
       "    u = person \"U\"",
       "    s = softwareSystem \"S\"">>
       \o Flatten(m)
       \o <<"  }",
            "  views {">>
       \o Flatten(v)
       \o <<"  }",
            "}">> :
     m \in {a \in Arrangements(ModelItems, MaxItems) : Distinct(a)},
     v \in {a \in Arrangements(ViewItems, MaxItems) : Distinct(a)}}

InitValid ==
    /\ lines \in WellFormedDocs
    /\ pc = "start"
    /\ scan = NoScan
    /\ diagnostics = <<>>
    /\ parsed = NoParse
    /\ ExtensionIdle

NextValid == UpdateDiagnostics

SpecValid == InitValid /\ [][NextValid]_vars

(***************************************************************************)
(* Lexical structure as section 4.1 of the specification states it, used   *)
(* as the yardstick of the lexical properties: line comments end at the    *)
(* end of the line, block comments span lines, a string ends at its        *)
(* closing quote or at the end of its line, a backslash inside a string    *)
(* escapes the next character, comment markers inside a string are inert.  *)
(***************************************************************************)
\* classification of line i from column j on; m = [mode, start, braces]
RECURSIVE LexLine(_, _, _, _)
LexLine(line, i, j, m) ==
    LET c == CharAt(line, j)
        n == CharAt(line, j + 1)
    IN  IF j >= Len(line) THEN m
        ELSE IF m.mode = "block"
        THEN IF c = "*" /\ n = "/"
             THEN LexLine(line, i, j + 2, [m EXCEPT !.mode = "code"])
             ELSE LexLine(line, i, j + 1, m)
        ELSE IF m.mode = "string"
        THEN IF c = "\\" THEN LexLine(line, i, j + 2, m)
             ELSE IF c = "\"" THEN LexLine(line, i, j + 1, [m EXCEPT !.mode = "code"])
             ELSE LexLine(line, i, j + 1, m)
        ELSE IF c = "/" /\ n = "*"
        THEN LexLine(line, i, j + 2, [m EXCEPT !.mode = "block"])
        ELSE IF c = "/" /\ n = "/" THEN m
        ELSE IF c = "\""
        THEN LexLine(line, i, j + 1, [m EXCEPT !.mode = "string", !.start = j])
        ELSE IF c \in {"{", "}"}
        THEN LexLine(line, i, j + 1,
                     [m EXCEPT !.braces = Append(m.braces,
                                            [ch |-> c, line |-> i, col |-> j])])
        ELSE LexLine(line, i, j + 1, m)

\* the lexical state at the end of line i (0-based): mode "string" when the
\* line ends inside a string (opened at column start), "block" when it ends
\* inside a block comment; braces lists the braces met as code so far
RECURSIVE LexAfter(_, _)
LexAfter(ls, i) ==
    LET before == IF i = 0 THEN [mode |-> "code", start |-> 0, braces |-> <<>>]
                  ELSE LexAfter(ls, i - 1)
        entry == IF before.mode = "string" THEN [before EXCEPT !.mode = "code"]
                 ELSE before
    IN  LexLine(LineAt(ls, i), i, 0, entry)

LexEnd(ls) == LexAfter(ls, Len(ls) - 1)

\* a brace sequence in which every brace has its partner
Balanced(b) ==
    /\ Cardinality({k \in 1..Len(b) : b[k].ch = "{"})
         = Cardinality({k \in 1..Len(b) : b[k].ch = "}"})
    /\ \A p \in 1..Len(b) :
         Cardinality({k \in 1..p : b[k].ch = "{"})
           >= Cardinality({k \in 1..p : b[k].ch = "}"})

\* indexes of the '{' that no later '}' closes
UnmatchedOpen(b) ==
    {j \in 1..Len(b) :
       /\ b[j].ch = "{"
       /\ ~\E k \in (j + 1)..Len(b) :
             b[k].ch = "}" /\ Balanced(SubSeq(b, j + 1, k - 1))}

\* indexes of the '}' that no earlier '{' opens
StrayClose(b) ==
    {k \in 1..Len(b) :
       /\ b[k].ch = "}"
       /\ ~\E j \in 1..(k - 1) :
             b[j].ch = "{" /\ Balanced(SubSeq(b, j + 1, k - 1))}

RECURSIVE SelectSeq2(_, _)
SelectSeq2(s, keep) ==
    IF s = <<>> THEN <<>>
    ELSE (IF keep[1] THEN <<Head(s)>> ELSE <<>>)
           \o SelectSeq2(Tail(s), Tail(keep))

\* the diagnostics whose message contains part, in order
WithMessage(diags, part) ==
    SelectSeq2(diags, [k \in 1..Len(diags) |-> Includes(diags[k].message, part)])

BraceScanDone == pc \in {"strings", "lexdone"}

UnclosedBraceReport(ls, n) ==
    Diagnostic(Len(ls) - 1, 0, Len(ls) - 1, Len(LineAt(ls, Len(ls) - 1)),
               ToString(n) \o (IF n = 1 THEN " unclosed brace"
                                        ELSE " unclosed braces"),
               Error)

\* C2: a text with exactly N >= 1 unmatched '{' outside strings and comments
\* gets exactly one unclosed-brace Error from checkBraceBalance, whose
\* message is "N unclosed brace" for N = 1 and "N unclosed braces" for
\* N > 1 and whose range is the whole last line.
C2_UnclosedBraceReported ==
    BraceScanDone =>
      LET n == Cardinality(UnmatchedOpen(LexEnd(lines).braces))
      IN  n >= 1 =>
            WithMessage(diagnostics, "unclosed brace")
              = <<UnclosedBraceReport(lines, n)>>

\* C2 as far as the code goes: the report is made when the document does
\* not end inside a block comment
C2_UnclosedBraceOutsideComment ==
    BraceScanDone =>
      LET n == Cardinality(UnmatchedOpen(LexEnd(lines).braces))
      IN  WithMessage(diagnostics, "unclosed brace")
            = IF n >= 1 /\ LexEnd(lines).mode # "block"
              THEN <<UnclosedBraceReport(lines, n)>>
              ELSE <<>>


\* the report the code owes each stray '}' of b, in text order
StrayReports(b) ==
    LET stray == SelectSeq2(b, [k \in 1..Len(b) |-> k \in StrayClose(b)])
    IN  [k \in 1..Len(stray) |->
           Diagnostic(stray[k].line, stray[k].col, stray[k].line,
                      stray[k].col + 1, "Unexpected closing brace", Error)]

\* C3: every '}' met as code at depth 0 gets exactly one "Unexpected closing
\* brace" Error on exactly that character, the depth is reset to 0 and is
\* never negative while the scan goes on, and an unclosed-brace report, when
\* there is one, still counts only the '{' that no '}' closes.
C3_StrayBraceReportedAndAbsorbed ==
    /\ pc = "brace" => scan.depth >= 0
    /\ pc = "brace" /\ scan.i >= Len(lines)
         => scan.depth = Cardinality(UnmatchedOpen(LexEnd(lines).braces))
    /\ BraceScanDone =>
         LET b == LexEnd(lines).braces
             n == Cardinality(UnmatchedOpen(b))
         IN  /\ WithMessage(diagnostics, "Unexpected closing brace")
                  = StrayReports(b)
             /\ WithMessage(diagnostics, "unclosed brace")
                  \in {<<>>, <<UnclosedBraceReport(lines, n)>>}
             /\ n = 0 => WithMessage(diagnostics, "unclosed brace") = <<>>

\* a stray '}' was reported and a later '{' is reported as the only
\* unclosed brace
C3_Witness ==
    /\ pc = "lexdone"
    /\ Len(WithMessage(diagnostics, "Unexpected closing brace")) >= 1
    /\ WithMessage(diagnostics, "unclosed brace")
         = <<UnclosedBraceReport(lines, 1)>>

\* C4: checkUnclosedStrings reports a line exactly when the line ends inside
\* a double-quoted string and its right-trimmed text does not end with a
\* backslash; the range runs from the opening quote to the end of the line.
C4_UnterminatedStringExactly ==
    pc = "lexdone" =>
      WithMessage(diagnostics, "Unterminated string")
        = LET owed == [i \in 1..Len(lines) |->
                         /\ LexAfter(lines, i - 1).mode = "string"
                         /\ ~EndsWith(TrimEnd(lines[i]), "\\")]
              all == [i \in 1..Len(lines) |->
                        Diagnostic(i - 1, LexAfter(lines, i - 1).start, i - 1,
                                   Len(lines[i]), "Unterminated string", Error)]
          IN  SelectSeq2(all, owed)

\* C5: in the unterminated-string scan, as in the brace scan, comment
\* markers inside a string are inert: a line whose strings are all closed
\* gets no "Unterminated string" Error, and at the end of every line both
\* scans agree on being inside a block comment.
C5_CommentMarkersInertInStrings ==
    /\ pc = "strings" =>
         scan.inBlockComment
           = BraceLines(SubSeq(lines, 1, scan.i), 0,
                        [j |-> 0, depth |-> 0, inBlockComment |-> FALSE,
                         diags |-> <<>>]).inBlockComment
    /\ pc = "lexdone" =>
         \A k \in 1..Len(diagnostics) :
            diagnostics[k].message = "Unterminated string"
              => LexAfter(lines, diagnostics[k].startLine).mode = "string"

\* C6: a document that ends inside a block comment gets exactly one
\* "Unterminated block comment" Error on the last line, in addition to the
\* unclosed-brace Error it gets when braces are still open at its end.
C6_CommentReportAddedToBraceReport ==
    BraceScanDone =>
      (LexEnd(lines).mode = "block" =>
         /\ WithMessage(diagnostics, "Unterminated block comment")
              = <<Diagnostic(Len(lines) - 1, 0, Len(lines) - 1,
                             Len(lines[Len(lines)]),
                             "Unterminated block comment", Error)>>
         /\ Cardinality(UnmatchedOpen(LexEnd(lines).braces)) > 0 =>
              Len(WithMessage(diagnostics, "unclosed brace")) = 1)

\* C6 without its last part: the comment report itself is always made
C6_CommentReported ==
    BraceScanDone =>
      WithMessage(diagnostics, "Unterminated block comment")
        = IF LexEnd(lines).mode = "block"
          THEN <<Diagnostic(Len(lines) - 1, 0, Len(lines) - 1,
                            Len(lines[Len(lines)]),
                            "Unterminated block comment", Error)>>
          ELSE <<>>

\* the diagnostics of line i (0-based), in order
OnLine(diags, i) ==
    SelectSeq2(diags, [k \in 1..Len(diags) |-> diags[k].startLine = i])

\* the 1-based indexes of the lines of the document that bind id
DupDeclarations(id) == {k \in 1..Len(lines) : DupEntry(lines[k]).binds = id}

Min(S) == CHOOSE x \in S : \A y \in S : x <= y

\* C7: an identifier bound by 'id = <element keyword>' on k >= 2 lines gets
\* exactly k-1 Warnings, one at each declaration after the first, each
\* naming the 1-indexed line of the first declaration; an identifier bound
\* on one line gets none (so the Warnings of the check are exactly these).
C7_OneWarningPerLaterDeclaration ==
    pc = "done" =>
      diagnostics
        = LET owed == [k \in 1..Len(lines) |->
                         LET id == DupEntry(lines[k]).binds
                         IN  id # "" /\ k # Min(DupDeclarations(id))]
              all == [k \in 1..Len(lines) |->
                        LET e == DupEntry(lines[k])
                        IN  Diagnostic(k - 1, e.col, k - 1, e.col + Len(e.binds),
                              "Duplicate identifier '" \o e.binds
                                \o "' (first defined on line "
                                \o ToString(IF e.binds = "" THEN 0
                                            ELSE Min(DupDeclarations(e.binds)))
                                \o ")",
                              Warning)]
          IN  SelectSeq2(all, owed)

\* an identifier bound on three lines got its two Warnings, both naming the
\* first line, while another identifier bound once got none
C7_Witness ==
    /\ pc = "done"
    /\ Cardinality(DupDeclarations("a")) = 3
    /\ Cardinality(DupDeclarations("A")) = 1
    /\ Min(DupDeclarations("a")) = 1
    /\ Len(WithMessage(diagnostics,
             "Duplicate identifier 'a' (first defined on line 1)")) = 2
    /\ Len(diagnostics) = 2

\* the identifiers the document declares
RelDeclared == {RelEntry(lines[k]).declares : k \in 1..Len(lines)} \ {""}

Count(diags, part) == Len(WithMessage(diags, part))

ViewDeclaredType(id) ==
    IF \E k \in 1..Len(lines) : ViewEntry(lines[k]).declares = id
    THEN ViewEntry(lines[CHOOSE k \in 1..Len(lines) :
                           ViewEntry(lines[k]).declares = id]).type
    ELSE ""

\* the diagnostics whose message contains both parts, in order
WithBoth(diags, part1, part2) == WithMessage(WithMessage(diags, part1), part2)

\* the 0-based lines of the views of type view whose scope is declared with
\* another type than required
Mismatched(view, required) ==
    {k - 1 : k \in {x \in 1..Len(lines) :
                      LET e == ViewEntry(lines[x])
                      IN  /\ e.view = view
                          /\ ViewDeclaredType(e.scope) \notin {"", required}}}

\* C9: in the whole diagnostic list, the Errors that contain "container
\* view" and "softwareSystem" are exactly one for each container view whose
\* scope is declared with another type than softwareSystem, and those that
\* contain "component view" and "container" exactly one for each component
\* view whose scope is not declared as a container; a view whose scope has
\* the required type gets none.
C9_OneTypeMismatchPerView ==
    pc = "published" =>
      LET cont == WithBoth(diagnostics, "container view", "softwareSystem")
          comp == WithBoth(diagnostics, "component view", "container")
      IN  /\ Len(cont) = Cardinality(Mismatched("container", "softwareSystem"))
          /\ {cont[k].startLine : k \in 1..Len(cont)}
               = Mismatched("container", "softwareSystem")
          /\ Len(comp) = Cardinality(Mismatched("component", "container"))
          /\ {comp[k].startLine : k \in 1..Len(comp)}
               = Mismatched("component", "container")
          /\ \A k \in 1..Len(cont) : cont[k].severity = Error
          /\ \A k \in 1..Len(comp) : comp[k].severity = Error
          /\ Len(WithMessage(diagnostics, "Type mismatch")) = Len(cont) + Len(comp)

\* a container view scoped to a person got its one Error while a container
\* view scoped to a softwareSystem in the same document got none
C9_Witness ==
    /\ pc = "published"
    /\ lines = <<"u = person \"U\"", "container u \"k1\" {",
                 "s = softwareSystem \"S\"">>
    /\ Len(WithBoth(diagnostics, "container view", "softwareSystem")) = 1
    /\ WithBoth(diagnostics, "container view", "softwareSystem")[1].startLine = 1

\* the block that immediately encloses line k (1-based) of the document:
\* the blocks opened and not yet closed before it ("" when there is none)
RECURSIVE OpenBlocks(_)
OpenBlocks(k) ==
    IF k = 0 THEN <<>>
    ELSE LET e == PlaceEntry(lines[k])
             before == OpenBlocks(k - 1)
         IN  IF e.closes
             THEN (IF before = <<>> THEN <<>>
                   ELSE SubSeq(before, 1, Len(before) - 1))
             ELSE IF e.opens # "" THEN Append(before, e.opens)
             ELSE before

Enclosing(k) == Top(OpenBlocks(k - 1))

\* C10: a container declaration gets an "Invalid container placement" Error
\* iff the block immediately enclosing it is not a softwareSystem block, a
\* component declaration an "Invalid component placement" Error iff the
\* block immediately enclosing it is not a container block, with or without
\* an 'id =' prefix on the enclosing element.
C10_PlacementFollowsEnclosingBlock ==
    pc = "done" =>
      \A k \in 1..Len(lines) :
         LET e == PlaceEntry(lines[k])
             d == OnLine(diagnostics, k - 1)
         IN  /\ e.declares = "container" =>
                  (Count(d, "Invalid container placement") > 0
                     <=> Enclosing(k) # "softwareSystem")
             /\ e.declares = "component" =>
                  (Count(d, "Invalid component placement") > 0
                     <=> Enclosing(k) # "container")

\* C1: the full diagnostic run on a well-formed document with a workspace,
\* exactly one model and a views block produces no diagnostic.
C1_NoDiagnosticsOnWellFormed ==
    pc = "published" => diagnostics = <<>>

(***************************************************************************)
(* Context-placement specification: checkContextAwarePlacement on every    *)
(* document of up to MaxCtxLines lines of CtxCorpus                        *)
(***************************************************************************)
\* each line with what it is: whether it is a relationship 'a -> b', the
\* block it opens and whether it closes one ("" when none)
CtxCorpus ==
    {[text |-> "model {",   rel |-> FALSE, opens |-> "model",  closes |-> FALSE],
     [text |-> "  views {", rel |-> FALSE, opens |-> "views",  closes |-> FALSE],
     [text |-> "styles {",  rel |-> FALSE, opens |-> "styles", closes |-> FALSE],
     [text |-> "systemLandscape \"k\" {",
                            rel |-> FALSE, opens |-> "view",   closes |-> FALSE],
     [text |-> "a -> b",    rel |-> TRUE,  opens |-> "",       closes |-> FALSE],
     [text |-> "  u->s \"Uses\"",
                            rel |-> TRUE,  opens |-> "",       closes |-> FALSE],
     [text |-> "include *", rel |-> FALSE, opens |-> "",       closes |-> FALSE],
     [text |-> "}",         rel |-> FALSE, opens |-> "",       closes |-> TRUE]}

CtxTexts == {e.text : e \in CtxCorpus}

CtxEntry(text) == CHOOSE e \in CtxCorpus : e.text = text

InitCtx ==
    /\ lines \in DocsOver(CtxTexts, MaxCtxLines)
    /\ pc = "start"
    /\ scan = NoScan
    /\ diagnostics = <<>>
    /\ parsed = NoParse
    /\ ExtensionIdle

RunCheckContextAwarePlacement ==
    /\ pc = "start"
    /\ diagnostics' = checkContextAwarePlacement(lines, <<>>)
    /\ pc' = "done"
    /\ UNCHANGED <<lines, scan, parsed, extensionVars>>

NextCtx == RunCheckContextAwarePlacement

SpecCtx == InitCtx /\ [][NextCtx]_vars

\* the blocks opened and not yet closed by the first k lines of the document
RECURSIVE CtxOpenBlocks(_)
CtxOpenBlocks(k) ==
    IF k = 0 THEN <<>>
    ELSE LET e == CtxEntry(lines[k])
             before == CtxOpenBlocks(k - 1)
         IN  IF e.closes
             THEN (IF before = <<>> THEN <<>>
                   ELSE SubSeq(before, 1, Len(before) - 1))
             ELSE IF e.opens # "" THEN Append(before, e.opens)
             ELSE before

\* the block context of line k (1-based): the innermost block open at it
CtxEnclosing(k) == Top(CtxOpenBlocks(k - 1))

\* C11: a relationship line whose block context is views or styles gets an
\* "Invalid relationship placement" Error from checkContextAwarePlacement,
\* and a relationship line whose block context is model gets none.
C11_RelationshipPlacement ==
    pc = "done" =>
      \A k \in 1..Len(lines) :
         CtxEntry(lines[k]).rel =>
           LET d == WithMessage(OnLine(diagnostics, k - 1),
                                "Invalid relationship placement")
           IN  /\ CtxEnclosing(k) \in {"views", "styles"} =>
                    Len(d) = 1 /\ d[1].severity = Error
               /\ CtxEnclosing(k) = "model" => d = <<>>

(***************************************************************************)
(* Workspace-structure specification: checkWorkspaceStructure on every     *)
(* document of up to MaxWsLines lines of WsCorpus                          *)
(***************************************************************************)
\* each line with what it is: the block it declares ("" when none) and the
\* column of the block keyword
WsCorpus ==
    {[text |-> "workspace \"W\" {", block |-> "workspace", col |-> 0],
     [text |-> "  Workspace {",     block |-> "workspace", col |-> 2],
     [text |-> "  model {",         block |-> "model",     col |-> 2],
     [text |-> "MODEL {}",          block |-> "model",     col |-> 0],
     [text |-> "views {",           block |-> "views",     col |-> 0],
     [text |-> "// model {",        block |-> "",          col |-> 0],
     [text |-> "u = person \"U\"", block |-> "",          col |-> 0],
     [text |-> "}",                 block |-> "",          col |-> 0]}

WsTexts == {e.text : e \in WsCorpus}

WsEntry(text) == CHOOSE e \in WsCorpus : e.text = text

InitWs ==
    /\ lines \in DocsOver(WsTexts, MaxWsLines)
    /\ pc = "start"
    /\ scan = NoScan
    /\ diagnostics = <<>>
    /\ parsed = NoParse
    /\ ExtensionIdle

RunCheckWorkspaceStructure ==
    /\ pc = "start"
    /\ diagnostics' = checkWorkspaceStructure(lines, <<>>)
    /\ pc' = "done"
    /\ UNCHANGED <<lines, scan, parsed, extensionVars>>

NextWs == RunCheckWorkspaceStructure

SpecWs == InitWs /\ [][NextWs]_vars

\* the 0-based lines of the document that declare block, in a set
WsDeclarations(block) ==
    {k - 1 : k \in {x \in 1..Len(lines) : WsEntry(lines[x]).block = block}}

\* the 0-based lines of the declarations of block after the first
WsLater(block) ==
    LET all == WsDeclarations(block)
    IN  IF all = {} THEN {} ELSE all \ {Min(all)}

\* the reports that contain part are Errors, one on each line of where
WsReportedAt(part, where) ==
    LET d == WithMessage(diagnostics, part)
    IN  /\ Len(d) = Cardinality(where)
        /\ {d[k].startLine : k \in 1..Len(d)} = where
        /\ \A k \in 1..Len(d) : d[k].severity = Error

\* the duplicate reports: an Error for each workspace declaration and for
\* each model block after the first
WsDuplicatesReported ==
    /\ WsReportedAt("Duplicate workspace", WsLater("workspace"))
    /\ WsReportedAt("Duplicate model", WsLater("model"))

\* an Error when there is no workspace declaration
WsMissingWorkspaceReported ==
    WsDeclarations("workspace") = {} =>
       /\ Count(diagnostics, "Missing workspace") = 1
       /\ WithMessage(diagnostics, "Missing workspace")[1].severity = Error

SpellCorpus ==
    {[text |-> "persn \"P\"",
      keyword |-> "persn", distance |-> 1, nearest |-> "person"],
     [text |-> "x = PERSN \"P\" {",
      keyword |-> "PERSN", distance |-> 1, nearest |-> "person"],
     [text |-> "  deploymentNo \"D\"",
      keyword |-> "deploymentNo", distance |-> 2, nearest |-> "deploymentNode"],
     [text |-> "deploymen \"D\"",
      keyword |-> "deploymen", distance |-> 1, nearest |-> "deployment"],
     [text |-> "softwareSys \"S\"",
      keyword |-> "softwareSys", distance |-> 3, nearest |-> "softwareSystem"],
     [text |-> "gr \"G\"",
      keyword |-> "gr", distance |-> 3, nearest |-> "group"],
     [text |-> "g \"G\"",
      keyword |-> "g", distance |-> 4, nearest |-> "group"],
     [text |-> "y = pxyzn \"P\"",
      keyword |-> "pxyzn", distance |-> 4, nearest |-> "person"],
     [text |-> "tags \"a\"",
      keyword |-> "tags", distance |-> 5, nearest |-> "person"],
     [text |-> "model \"m\"",
      keyword |-> "model", distance |-> 5, nearest |-> "group"],
     [text |-> "p = person \"P\"",
      keyword |-> "", distance |-> 0, nearest |-> ""],
     [text |-> "container s \"k\" {",
      keyword |-> "", distance |-> 0, nearest |-> ""],
     [text |-> "a -> b \"Uses\"",
      keyword |-> "", distance |-> 0, nearest |-> ""]}

SpellTexts == {e.text : e \in SpellCorpus}

SpellEntry(text) == CHOOSE e \in SpellCorpus : e.text = text

InitSpell ==
    /\ lines \in DocsOver(SpellTexts, MaxSpellLines)
    /\ pc = "start"
    /\ scan = NoScan
    /\ diagnostics = <<>>
    /\ parsed = NoParse
    /\ ExtensionIdle

RunCheckKeywordSpelling ==
    /\ pc = "start"
    /\ diagnostics' = checkKeywordSpelling(lines, <<>>)
    /\ pc' = "done"
    /\ UNCHANGED <<lines, scan, parsed, extensionVars>>

NextSpell == RunCheckKeywordSpelling

SpecSpell == InitSpell /\ [][NextSpell]_vars

\* the "Did you mean" reports of line k (1-based) of the document
Suggestions(k) == WithMessage(OnLine(diagnostics, k - 1), "Did you mean")

ParseCorpus ==
    {[text |-> "workspace \"A\" {", kind |-> "workspace", name |-> "A",
      opens |-> "workspace", closes |-> FALSE],
     [text |-> "  workspace \"B\" {", kind |-> "workspace", name |-> "B",
      opens |-> "workspace", closes |-> FALSE],
     [text |-> "model {", kind |-> "other", opens |-> "model", closes |-> FALSE],
     [text |-> "views {", kind |-> "other", opens |-> "views", closes |-> FALSE],
     [text |-> "}", kind |-> "other", opens |-> "", closes |-> TRUE],
     [text |-> "p = person \"P\"", kind |-> "element", id |-> "p",
      keyword |-> "person", name |-> "P", stripped |-> "P",
      opens |-> "", closes |-> FALSE],
     [text |-> "  person \"Alice Smith\"", kind |-> "element", id |-> "",
      keyword |-> "person", name |-> "Alice Smith", stripped |-> "AliceSmith",
      opens |-> "", closes |-> FALSE],
     [text |-> "person \" \"", kind |-> "element", id |-> "",
      keyword |-> "person", name |-> " ", stripped |-> "",
      opens |-> "", closes |-> FALSE],
     [text |-> "web = container \"Web\"", kind |-> "element", id |-> "web",
      keyword |-> "container", name |-> "Web", stripped |-> "Web",
      opens |-> "", closes |-> FALSE],
     [text |-> "container s \"k\" {", kind |-> "scoped",
      keyword |-> "container", scope |-> "s", key |-> "k",
      opens |-> "view", closes |-> FALSE],
     [text |-> "  component web \"c\"", kind |-> "scoped",
      keyword |-> "component", scope |-> "web", key |-> "c",
      opens |-> "", closes |-> FALSE],
     [text |-> "systemLandscape \"all\" {", kind |-> "view",
      opens |-> "view", closes |-> FALSE],
     [text |-> "a -> b \"Uses\"", kind |-> "relationship",
      opens |-> "", closes |-> FALSE],
     [text |-> "autoLayout lr", kind |-> "autoLayout", dir |-> "lr",
      opens |-> "", closes |-> FALSE],
     [text |-> "  autoLayout", kind |-> "autoLayout", dir |-> "",
      opens |-> "", closes |-> FALSE]}

ParseTexts == {e.text : e \in ParseCorpus}

ParseEntry(text) == CHOOSE e \in ParseCorpus : e.text = text

InitParse ==
    /\ lines \in DocsOver(ParseTexts, MaxParseLines)
    /\ pc = "parse"
    /\ scan = NoScan
    /\ diagnostics = <<>>
    /\ parsed = NoParse
    /\ ExtensionIdle

SpecParse == InitParse /\ [][NextParse]_vars

\* the blocks opened and not yet closed by the first k lines of the document
RECURSIVE ParseOpenBlocks(_)
ParseOpenBlocks(k) ==
    IF k = 0 THEN <<>>
    ELSE LET e == ParseEntry(lines[k])
             before == ParseOpenBlocks(k - 1)
         IN  IF e.closes
             THEN (IF before = <<>> THEN <<>>
                   ELSE SubSeq(before, 1, Len(before) - 1))
             ELSE IF e.opens # "" THEN Append(before, e.opens)
             ELSE before

\* line k (1-based) of the document lies inside a block of the kind block
InsideBlock(k, block) == block \in Range(ParseOpenBlocks(k - 1))

\* the members of a sequence of parsed objects that come from line k
\* (1-based) of the document
FromLine(objects, k) ==
    {objects[x] : x \in {y \in 1..Len(objects) : objects[y].line = k - 1}}

\* C14: every element returned with a non-empty name has a non-empty
\* identifier; a declaration without an 'id =' prefix and with a name gets
\* the name with all white space removed as its identifier, and that
\* identifier is not the empty string.
C14_IdentifierFromName ==
    pc = "returned" =>
      /\ \A x \in 1..Len(parsed.elements) :
            parsed.elements[x].name # "" => parsed.elements[x].identifier # ""
      /\ \A k \in 1..Len(lines) :
            LET e == ParseEntry(lines[k])
            IN  e.kind = "element" /\ e.id = "" /\ e.name # "" =>
                  \A el \in FromLine(parsed.elements, k) :
                     el.identifier = e.stripped /\ el.identifier # ""

\* C15: no element returned by parseDocument has the empty string as its
\* identifier, whatever the text.
C15_NoEmptyIdentifier ==
    pc = "returned" =>
      \A x \in 1..Len(parsed.elements) : parsed.elements[x].identifier # ""

\* C16: a 'container <scope> "<key>"' or 'component <scope> "<key>"' line
\* inside the views block is returned as a view of that type with that
\* scope and key and as no element; an element declaration with the same
\* keyword inside the model block is returned as an element and as no view.
C16_ContainerInViewsIsView ==
    pc = "returned" =>
      \A k \in 1..Len(lines) :
         LET e == ParseEntry(lines[k])
         IN  /\ e.kind = "scoped" /\ InsideBlock(k, "views") =>
                  /\ FromLine(parsed.elements, k) = {}
                  /\ FromLine(parsed.views, k) =
                       {[type |-> e.keyword, scope |-> Some(e.scope),
                         key |-> Some(e.key), line |-> k - 1]}
             /\ e.kind = "element" /\ InsideBlock(k, "model") =>
                  /\ FromLine(parsed.views, k) = {}
                  /\ \E el \in FromLine(parsed.elements, k) : el.type = e.keyword

\* C17: the relationships returned are those of the relationship lines
\* inside the model block, one for each; a relationship-shaped line outside
\* the model block adds none.
C17_RelationshipsOnlyInModel ==
    pc = "returned" =>
      \A k \in 1..Len(lines) :
         Cardinality(FromLine(parsed.relationships, k)) =
            (IF ParseEntry(lines[k]).kind = "relationship" /\ InsideBlock(k, "model")
             THEN 1 ELSE 0)

\* view.autoLayout; a property the object does not have reads as undefined
AutoLayoutOf(view) ==
    IF "autoLayout" \in DOMAIN view THEN Some(view.autoLayout) ELSE Undefined

\* the 1-based lines of the body of the block opened on line k: the lines
\* after k up to the first line that closes a block
BodyLines(k) ==
    {b \in (k + 1)..Len(lines) :
       \A c \in (k + 1)..b : ~ParseEntry(lines[c]).closes}

\* the directions the autoLayout directives of the body of the view opened
\* on line k give, "tb" for a directive without a direction token
BodyDirections(k) ==
    {IF ParseEntry(lines[b]).dir = "" THEN "tb" ELSE ParseEntry(lines[b]).dir :
       b \in {c \in BodyLines(k) : ParseEntry(lines[c]).kind = "autoLayout"}}

\* C18: the autoLayout of every view returned is the direction given by the
\* autoLayout directive of the body of the view, "tb" when the directive
\* has no direction token, and undefined when the body has no directive.
C18_AutoLayoutOfView ==
    pc = "returned" =>
      \A x \in 1..Len(parsed.views) :
         LET view == parsed.views[x]
             k == view.line + 1
         IN  ParseEntry(lines[k]).opens = "view" =>
               IF BodyDirections(k) = {}
               THEN AutoLayoutOf(view) = Undefined
               ELSE /\ AutoLayoutOf(view) # Undefined
                    /\ AutoLayoutOf(view)[1] \in BodyDirections(k)

\* the 1-based lines of the document that match the workspace-name pattern
NameLines == {k \in 1..Len(lines) : ParseEntry(lines[k]).kind = "workspace"}

\* C19: when several lines match the workspace-name pattern the name
\* returned is the name of the first of them.
C19_FirstWorkspaceNameWins ==
    pc = "returned" /\ NameLines # {} =>
      parsed.workspaceName = Some(ParseEntry(lines[Min(NameLines)]).name)

(***************************************************************************)
(* Malformed-text specification: parseDocument, line by line, on every     *)
(* text of up to MaxTokens tokens of TextTokens                            *)
(***************************************************************************)
Declaration == "u = person \"User\""

\* a declaration and the pieces that leave braces, strings and comments
\* open, break lines and indent them
TextTokens == {Declaration, "\n", "{", "}", "\"", "/*", "//", " "}

TokenTexts == Texts(TextTokens, MaxTokens)

InitText ==
    /\ lines \in {Split(t) : t \in TokenTexts}
    /\ pc = "parse"
    /\ scan = NoScan
    /\ diagnostics = <<>>
    /\ parsed = NoParse
    /\ ExtensionIdle

SpecText == InitText /\ [][NextParse]_vars

\* the lines that are the declaration and nothing else but indentation
DeclarationLines ==
    {before \o Declaration \o after : before, after \in {"", " ", "  "}}

\* what parseDocument returns holds the three arrays
HoldsArrays ==
    /\ {"elements", "relationships", "views"} \subseteq DOMAIN parsed
    /\ DOMAIN parsed.elements = 1..Len(parsed.elements)
    /\ DOMAIN parsed.relationships = 1..Len(parsed.relationships)
    /\ DOMAIN parsed.views = 1..Len(parsed.views)

\* every declaration line of the document is returned as the element u
\* named User with the 0-based number of the line
DeclarationsExtracted ==
    \A k \in 1..Len(lines) :
       lines[k] \in DeclarationLines =>
          [identifier |-> "u", type |-> "person", name |-> "User",
           line |-> k - 1, children |-> <<>>] \in FromLine(parsed.elements, k)

\* C20: on every text, with unbalanced braces, unterminated strings and
\* unterminated comments among them, parseDocument never stops short of its
\* return (until it has returned there is a next line to take or the return
\* is possible) and comes to it (every step moves on to the next line or
\* returns, and the line number never passes the end of the text); what it
\* returns holds the elements, relationships and views arrays, and every
\* well-formed declaration line 'u = person "User"' of the text is among the
\* elements with identifier u, name User and its line number.
C20_ReturnsAndStillExtracts ==
    /\ [](pc = "returned" => HoldsArrays /\ DeclarationsExtracted)
    /\ [](pc # "returned" =>
            (pc = "parse" /\ parsed.i < Len(lines)) \/ ENABLED ParseReturn)
    /\ [](parsed.i <= Len(lines))
    /\ [][parsed'.i = parsed.i + 1 \/ (pc # "returned" /\ pc' = "returned")]_vars

\* the text with an unclosed brace on its first line and the declaration on
\* line 2 has been parsed to the end and the declaration returned
C20_Witness ==
    /\ pc = "returned"
    /\ lines = <<"{", "", Declaration>>
    /\ parsed.elements =
         <<[identifier |-> "u", type |-> "person", name |-> "User",
            line |-> 2, children |-> <<>>]>>

(***************************************************************************)
(* Block-context specification: getBlockContext at every line of every     *)
(* document with balanced braces of up to MaxBlockLines lines of           *)
(* BlockCorpus                                                             *)
(***************************************************************************)
\* each line with what it is: the structural block it opens ("" when none,
\* "style-rule" for a style rule), whether it opens a block that is not
\* structural (an element block), whether it closes a block
BlockCorpus ==
    {[text |-> "workspace {", opens |-> "workspace", element |-> FALSE,
      closes |-> FALSE],
     [text |-> "model {", opens |-> "model", element |-> FALSE, closes |-> FALSE],
     [text |-> "views {", opens |-> "views", element |-> FALSE, closes |-> FALSE],
     [text |-> "styles {", opens |-> "styles", element |-> FALSE,
      closes |-> FALSE],
     [text |-> "element \"Person\" {", opens |-> "style-rule",
      element |-> FALSE, closes |-> FALSE],
     [text |-> "systemLandscape {", opens |-> "view", element |-> FALSE,
      closes |-> FALSE],
     [text |-> "s = softwareSystem \"S\" {", opens |-> "", element |-> TRUE,
      closes |-> FALSE],
     [text |-> "u = person \"U\"", opens |-> "", element |-> FALSE,
      closes |-> FALSE],
     [text |-> "}", opens |-> "", element |-> FALSE, closes |-> TRUE]}

BlockTexts == {e.text : e \in BlockCorpus}

BlockEntry(text) == CHOOSE e \in BlockCorpus : e.text = text

\* the blocks, structural or not, opened and not yet closed by the first k
\* lines of the document d; <<"unbalanced">> once a line closes no block
RECURSIVE OpenBlocksOf(_, _)
OpenBlocksOf(d, k) ==
    IF k = 0 THEN <<>>
    ELSE LET e == BlockEntry(d[k])
             before == OpenBlocksOf(d, k - 1)
         IN  IF before = <<"unbalanced">> THEN before
             ELSE IF e.closes
             THEN (IF before = <<>> THEN <<"unbalanced">>
                   ELSE SubSeq(before, 1, Len(before) - 1))
             ELSE IF e.opens # "" THEN Append(before, e.opens)
             ELSE IF e.element THEN Append(before, "")
             ELSE before

\* every '}' closes a block and every block is closed
BalancedBraces(d) == OpenBlocksOf(d, Len(d)) = <<>>

InitBlock ==
    /\ lines \in {d \in DocsOver(BlockTexts, MaxBlockLines) : BalancedBraces(d)}
    /\ pc = "query"
    /\ scan = NoScan
    /\ diagnostics = <<>>
    /\ parsed = NoParse
    /\ ExtensionIdle

SpecBlock == InitBlock /\ [][NextBlock]_vars

\* the innermost structural block among the open blocks, as callers are told
\* it: "root" when there is none, "element" for a style rule
RECURSIVE InnermostStructural(_)
InnermostStructural(open) ==
    IF open = <<>> THEN "root"
    ELSE IF open[Len(open)] = "" THEN InnermostStructural(SubSeq(open, 1, Len(open) - 1))
    ELSE IF open[Len(open)] = "style-rule" THEN "element"
    ELSE open[Len(open)]

\* the line asked about neither opens nor closes a block
AsksPlainLine ==
    /\ blockContext # NoBlock
    /\ LET e == BlockEntry(lines[blockContext.line + 1])
       IN  e.opens = "" /\ ~e.element /\ ~e.closes

\* C21: in a document with balanced braces, getBlockContext at a line that
\* neither opens nor closes a block returns the innermost structural block
\* that encloses the line (workspace, model, views, styles, view, element
\* for a style rule), element blocks opened and closed before the line or
\* open around it notwithstanding, and root when no structural block
\* encloses it
C21_InnermostStructuralBlock ==
    AsksPlainLine =>
        blockContext.context
          = InnermostStructural(OpenBlocksOf(lines, blockContext.line))

(***************************************************************************)
(* Keyword-case specification: checkKeywordSpelling on every document of   *)
(* up to MaxCaseLines lines of CaseCorpus                                  *)
(***************************************************************************)
\* each line with the element keyword its declaration uses, as
\* ELEMENT_TYPE_MAP lists it, "" when the keyword is none in any letter case
CaseCorpus ==
    {[text |-> "p = person \"P\"", known |-> "person"],
     [text |-> "u = Person \"U\"", known |-> "person"],
     [text |-> "PERSON \"U\"", known |-> "person"],
     [text |-> "s = softwareSystem \"S\"", known |-> "softwaresystem"],
     [text |-> "s = softwaresystem \"S\"", known |-> "softwaresystem"],
     [text |-> "t = SoftwareSystem \"T\" {", known |-> "softwaresystem"],
     [text |-> "  c = CONTAINER \"C\"", known |-> "container"],
     [text |-> "g = Group \"G\"", known |-> "group"],
     [text |-> "n = deploymentnode \"N\"", known |-> "deploymentnode"],
     [text |-> "persn \"P\"", known |-> ""]}

CaseTexts == {e.text : e \in CaseCorpus}

CaseEntry(text) == CHOOSE e \in CaseCorpus : e.text = text

InitCase ==
    /\ lines \in DocsOver(CaseTexts, MaxCaseLines)
    /\ pc = "start"
    /\ scan = NoScan
    /\ diagnostics = <<>>
    /\ parsed = NoParse
    /\ ExtensionIdle

SpecCase == InitCase /\ [][NextSpell]_vars

\* the "Unknown keyword" reports of line k (1-based) of the document
UnknownKeywordReports(k) ==
    WithMessage(OnLine(diagnostics, k - 1), "Unknown keyword")

\* the extractor takes the declaration of line k for an element of the type
\* of its keyword
ExtractedAs(k, type) ==
    /\ ELEMENT_PATTERN(Trim(lines[k])).ok
    /\ ParsedElement(ELEMENT_PATTERN(Trim(lines[k])), k - 1).type = type

\* C25: a declaration whose keyword is a known element keyword in any letter
\* case, which the extractor takes for an element of that type, gets no
\* "Unknown keyword" report from the spelling check
C25_KnownKeywordInAnyCase ==
    pc = "done" =>
      \A k \in 1..Len(lines) :
         CaseEntry(lines[k]).known # "" =>
            /\ \E type \in {ELEMENT_TYPE_MAP[x] : x \in DOMAIN ELEMENT_TYPE_MAP} :
                  ExtractedAs(k, type)
            /\ UnknownKeywordReports(k) = <<>>

(***************************************************************************)
(* Nesting-depth specification: checkAdditionalSyntax on the documents     *)
(* that open up to MaxOpen blocks around one declaration and close them    *)
(***************************************************************************)
\* the lines that open a block: block keywords and an element
NestOpeners == {"workspace {", "model {", "g = group \"G\" {"}

NestedLine == "u = person \"U\""

\* the openers, the declaration inside them, one closing brace for each
NestDocs ==
    {o \o <<NestedLine>> \o [k \in 1..Len(o) |-> "}"] :
       o \in UNION {[1..n -> NestOpeners] : n \in 0..MaxOpen}}

InitNest ==
    /\ lines \in NestDocs
    /\ pc = "start"
    /\ scan = NoScan
    /\ diagnostics = <<>>
    /\ parsed = NoParse
    /\ ExtensionIdle

RunCheckAdditionalSyntax ==
    /\ pc = "start"
    /\ diagnostics' = checkAdditionalSyntax(lines, <<>>)
    /\ pc' = "done"
    /\ UNCHANGED <<lines, scan, parsed, extensionVars>>

NextNest == RunCheckAdditionalSyntax

SpecNest == InitNest /\ [][NextNest]_vars

\* the position (1-based) of the declaration: the first line that is no
\* opener
NestedAt == Least({k \in 1..Len(lines) : lines[k] = NestedLine})

\* the number of blocks open around the declaration
NestingDepth == NestedAt - 1

\* the excessive-nesting reports of line k (1-based) of the document
NestingReports(k) ==
    WithMessage(OnLine(diagnostics, k - 1), "Excessive nesting depth")

\* C24: the declaration gets an excessive-nesting Warning when more than 6
\* blocks of any kind are open around it, and none when 6 or fewer are
C24_WarningIffDeeperThanSix ==
    pc = "done" =>
      /\ NestingDepth > 6 =>
           /\ Len(NestingReports(NestedAt)) = 1
           /\ NestingReports(NestedAt)[1].severity = Warning
      /\ NestingDepth <= 6 => NestingReports(NestedAt) = <<>>

(***************************************************************************)
(* Range specification: updateDiagnostics on every document of up to       *)
(* MaxRangeLines lines of RangeCorpus                                      *)
(***************************************************************************)
\* lines that draw reports from the structural, semantic and context-aware
\* checks, the block keywords in two letter cases
RangeCorpus ==
    {"workspace {", "  WORKSPACE {", "model {", "Model {", "views {",
     "  include *", "INCLUDE *", "a -> b", "u = person \"U\"",
     "container x \"k\" {", "autoLayout up", "}", "\"", ""}

InitRange ==
    /\ lines \in DocsOver(RangeCorpus, MaxRangeLines)
    /\ pc = "start"
    /\ scan = NoScan
    /\ diagnostics = <<>>
    /\ parsed = NoParse
    /\ ExtensionIdle

NextRange == UpdateDiagnostics

SpecRange == InitRange /\ [][NextRange]_vars

\* the range of d lies within the document ls
ValidRange(d, ls) ==
    /\ d.startLine >= 0 /\ d.startLine < Len(ls)
    /\ d.endLine >= 0 /\ d.endLine < Len(ls)
    /\ d.startCol >= 0
    /\ d.startLine < d.endLine
         \/ (d.startLine = d.endLine /\ d.startCol <= d.endCol)
    /\ d.endLine < Len(ls) => d.endCol <= Len(LineAt(ls, d.endLine))

\* C26: every diagnostic of the run has a valid range: its lines are lines
\* of the document, its start column is at least 0, its start does not
\* exceed its end and its end column does not exceed the length of its line
C26_EveryRangeValid ==
    pc = "published" =>
      \A k \in 1..Len(diagnostics) : ValidRange(diagnostics[k], lines)

(***************************************************************************)
(* Declaration-order specification: updateDiagnostics on every document of *)
(* up to MaxOrderLines lines of OrderCorpus                                *)
(***************************************************************************)
\* each line with the identifier it declares, the source and the target of
\* its relationship, the scope of its view ("" when none)
OrderCorpus ==
    {[text |-> "a = person \"A\"", declares |-> "a", s |-> "", t |-> "",
      scope |-> ""],
     [text |-> "s = softwareSystem \"S\"", declares |-> "s", s |-> "",
      t |-> "", scope |-> ""],
     [text |-> "a -> s \"Uses\"", declares |-> "", s |-> "a", t |-> "s",
      scope |-> ""],
     [text |-> "  s -> z", declares |-> "", s |-> "s", t |-> "z", scope |-> ""],
     [text |-> "systemContext s \"ctx\" {", declares |-> "", s |-> "",
      t |-> "", scope |-> "s"],
     [text |-> "container s \"cont\" {", declares |-> "", s |-> "", t |-> "",
      scope |-> "s"],
     [text |-> "dynamic a \"dyn\" {", declares |-> "", s |-> "", t |-> "",
      scope |-> "a"]}

OrderTexts == {e.text : e \in OrderCorpus}

OrderEntry(text) == CHOOSE e \in OrderCorpus : e.text = text

InitOrder ==
    /\ lines \in DocsOver(OrderTexts, MaxOrderLines)
    /\ pc = "start"
    /\ scan = NoScan
    /\ diagnostics = <<>>
    /\ parsed = NoParse
    /\ ExtensionIdle

NextOrder == UpdateDiagnostics

SpecOrder == InitOrder /\ [][NextOrder]_vars

\* the identifiers declared on some line of the document, before or after
\* any use
DeclaredSomewhere == {OrderEntry(lines[k]).declares : k \in 1..Len(lines)} \ {""}

\* the messages of the undefined-identifier reports of line k (1-based)
UndefinedMessages(k) ==
    {d.message : d \in Range(WithMessage(OnLine(diagnostics, k - 1), "Undefined"))}

\* the undefined-identifier messages line k is due, given the identifiers
\* that count as declared
DueMessages(k, declared) ==
    LET e == OrderEntry(lines[k])
    IN  (IF e.s # "" /\ e.s \notin declared
         THEN {"Undefined source identifier '" \o e.s \o "' in relationship"}
         ELSE {})
        \cup (IF e.t # "" /\ e.t \notin declared
              THEN {"Undefined target identifier '" \o e.t \o "' in relationship"}
              ELSE {})
        \cup (IF e.scope # "" /\ e.scope \notin declared
              THEN {"Undefined scope identifier '" \o e.scope \o "' in view"}
              ELSE {})

IdCorpus ==
    {"p = person \"P\"", "  s = softwareSystem \"S\" {", "t = softwareSystem {",
     "u = person", "c = group", "// x = person \"X\"", "workspace \"W\" {",
     "a -> b"}

InitIds ==
    /\ lines \in DocsOver(IdCorpus, MaxIdLines)
    /\ pc = "parse"
    /\ scan = NoScan
    /\ diagnostics = <<>>
    /\ parsed = NoParse
    /\ ExtensionIdle

SpecIds == InitIds /\ [][NextParse]_vars

\* the identifiers of the elements parseDocument returned
ElementIdentifiers == {parsed.elements[k].identifier : k \in 1..Len(parsed.elements)}

\* C28: every identifier that buildIdentifierMap records for the lines of
\* the document is the identifier of an element that parseDocument returns
\* for the same lines
C28_ExtractorCoversIdentifierMap ==
    pc = "returned" => DOMAIN buildIdentifierMap(lines) \subseteq ElementIdentifiers

(***************************************************************************)
(* Line numbers of the extracted constructs (extractor specification)      *)
(***************************************************************************)
\* the line numbers of a returned list, in the order of the list
LineNumbers(objects) == [x \in 1..Len(objects) |-> objects[x].line]

StrictlyIncreasing(seq) == \A x \in 1..(Len(seq) - 1) : seq[x] < seq[x + 1]

\* the number of objects of a returned list that carry the line number of
\* line k (1-based)
CountFromLine(objects, k) ==
    Cardinality({x \in 1..Len(objects) : objects[x].line = k - 1})

\* the number of constructs returned for line k (1-based)
ConstructsFromLine(k) ==
    CountFromLine(parsed.elements, k) + CountFromLine(parsed.relationships, k)
      + CountFromLine(parsed.views, k)

\* C30: every returned element, relationship and view carries the 0-based
\* index of the line it was matched on; a line yields at most one construct,
\* none when it gives the workspace name, an element when it declares one,
\* a relationship or a view when it is one; hence the line numbers of each
\* list increase strictly and no line number is in two lists
C30_OneConstructPerLineWithItsIndex ==
    pc = "returned" =>
      /\ StrictlyIncreasing(LineNumbers(parsed.elements))
      /\ StrictlyIncreasing(LineNumbers(parsed.relationships))
      /\ StrictlyIncreasing(LineNumbers(parsed.views))
      /\ Range(LineNumbers(parsed.elements)) \cup Range(LineNumbers(parsed.relationships))
           \cup Range(LineNumbers(parsed.views)) \subseteq 0..(Len(lines) - 1)
      /\ \A k \in 1..Len(lines) :
            LET e == ParseEntry(lines[k])
            IN  /\ ConstructsFromLine(k) <= 1
                /\ e.kind = "workspace" => ConstructsFromLine(k) = 0
                /\ e.kind = "element" =>
                     /\ CountFromLine(parsed.elements, k) = 1
                     /\ \A el \in FromLine(parsed.elements, k) : el.name = e.name
                /\ e.kind = "relationship" =>
                     CountFromLine(parsed.relationships, k) = 1
                /\ e.kind = "view" => CountFromLine(parsed.views, k) = 1
                /\ e.kind \in {"other", "autoLayout"} => ConstructsFromLine(k) = 0

\* an element, a relationship and a view were returned from the lines 0, 1
\* and 2 of a document whose first line is indented
C30_Witness ==
    /\ pc = "returned"
    /\ lines = <<"  person \"Alice Smith\"", "a -> b \"Uses\"",
                 "systemLandscape \"all\" {">>
    /\ LineNumbers(parsed.elements) = <<0>>
    /\ LineNumbers(parsed.relationships) = <<1>>
    /\ LineNumbers(parsed.views) = <<2>>

(***************************************************************************)
(* Repeated-call specification: up to MaxCalls calls of parseDocument, one *)
(* after the other, each on any document of up to MaxCallLines lines of    *)
(* CallTexts                                                               *)
(***************************************************************************)
CallTexts == {"workspace \"A\" {", "p = person \"P\"", "a -> b \"Uses\""}

CallDocs == DocsOver(CallTexts, MaxCallLines)

\* the locals with which Locals starts a call when the arrays and the name
\* are kept from the call before
Locals_KeptFromLastCall(left) == [left EXCEPT !.i = 0]

\* the declarations at the head of parseDocument: the arrays and the name of
\* a call are made anew, whatever the call before left
Locals(left) == NoParse

\* the object a finished call returns
Returned(st) ==
    [name |-> st.workspaceName, elements |-> st.elements,
     relationships |-> st.relationships, views |-> st.views]

InitCalls ==
    /\ lines \in CallDocs
    /\ pc = "parse"
    /\ scan = NoScan
    /\ diagnostics = <<>>
    /\ parsed = NoParse
    /\ ExtensionIdle

\* the next call of parseDocument, on any document, after the last one
\* returned
CallParseDocument ==
    /\ pc = "returned"
    /\ Len(calls) + 1 < MaxCalls
    /\ calls' = Append(calls, [lines |-> lines, result |-> Returned(parsed)])
    /\ lines' \in CallDocs
    /\ parsed' = Locals(parsed)
    /\ pc' = "parse"
    /\ UNCHANGED <<scan, diagnostics, blockContext, editorVars, previewVars>>

NextCalls == ParseLine \/ ParseReturn \/ CallParseDocument

SpecCalls == InitCalls /\ [][NextCalls]_vars

\* C23: two calls of parseDocument on the same text return equal results,
\* whatever texts were parsed before or in between
C23_SameTextSameResult ==
    /\ \A j, k \in 1..Len(calls) :
          calls[j].lines = calls[k].lines => calls[j].result = calls[k].result
    /\ pc = "returned" =>
         \A k \in 1..Len(calls) :
            calls[k].lines = lines => calls[k].result = Returned(parsed)

\* the third call returned for the text of the first one, another text
\* having been parsed in between, and both returned the element and the
\* workspace name of the text
C23_Witness ==
    /\ pc = "returned"
    /\ Len(calls) = 2
    /\ lines = <<"workspace \"A\" {", "p = person \"P\"">>
    /\ calls[1].lines = lines
    /\ calls[2].lines = <<"a -> b \"Uses\"">>
    /\ Len(calls[2].result.relationships) = 1
    /\ Returned(parsed).name = Some("A")
    /\ Len(Returned(parsed).elements) = 1
    /\ Returned(parsed) = calls[1].result

(***************************************************************************)
(* registerDiagnostics: the listeners of the editor events and the         *)
(* diagnostic collection                                                   *)
(***************************************************************************)
\* the documents of the editor, by URI
Uris == {"a.dsl", "b.dsl", "notes.txt"}

\* document.languageId
LanguageId(uri) == IF uri = "notes.txt" THEN "plaintext" ELSE "structurizr"

\* the texts a document is opened with or edited to
EditorTexts ==
    {"workspace {\n}",
     "}",
     "a -> b",
     "INCLUDE *"}

\* new vscode.Range(startLine, startCol, endLine, endCol) throws for a
\* negative line or column, which ends the run of updateDiagnostics before
\* diagnosticCollection.set
RangeThrows(d) ==
    d.startLine < 0 \/ d.startCol < 0 \/ d.endLine < 0 \/ d.endCol < 0

\* diagnosticCollection.set(uri, diagnostics): the entry of the URI is the
\* array handed in
CollectionSet(published, uri, diags) == [published EXCEPT ![uri] = Some(diags)]

\* diagnosticCollection.delete(uri)
CollectionDelete(published, uri) == [published EXCEPT ![uri] = Undefined]

\* the end of updateDiagnostics: the diagnostics are built one by one, each
\* with its Range, and published only when every constructor returned
Publish(published, uri, diags) ==
    IF \E k \in 1..Len(diags) : RangeThrows(diags[k])
    THEN published
    ELSE CollectionSet(published, uri, diags)

\* updateDiagnostics(document): the collection it leaves
updateDiagnostics(published, uri, text) ==
    IF LanguageId(uri) # "structurizr" THEN published
    ELSE Publish(published, uri, computeDiagnostics(Split(text)))

InitEditor ==
    /\ lines = <<>>
    /\ pc = "listening"
    /\ scan = NoScan
    /\ diagnostics = <<>>
    /\ parsed = NoParse
    /\ blockContext = NoBlock
    /\ calls = <<>>
    /\ documents = [uri \in Uris |-> Undefined]
    /\ collection = [uri \in Uris |-> Undefined]
    /\ lastEvent = NoEvent
    /\ PreviewIdle

\* the editor opens a document: no listener is registered for it
OpenTextDocument ==
    \E uri \in Uris, text \in EditorTexts :
       /\ documents[uri] = Undefined
       /\ documents' = [documents EXCEPT ![uri] = Some(text)]
       /\ lastEvent' = [kind |-> "open", uri |-> uri]
       /\ UNCHANGED <<lines, pc, scan, diagnostics, parsed, blockContext, calls,
                      collection, previewVars>>

\* onDidChangeActiveTextEditor: the editor of an open document becomes the
\* active one
ChangeActiveTextEditor ==
    \E uri \in Uris :
       /\ documents[uri] # Undefined
       /\ collection' =
            IF LanguageId(uri) = "structurizr"
            THEN updateDiagnostics(collection, uri, documents[uri][1])
            ELSE collection
       /\ lastEvent' = [kind |-> "activate", uri |-> uri]
       /\ UNCHANGED <<lines, pc, scan, diagnostics, parsed, blockContext, calls,
                      documents, previewVars>>

\* onDidChangeTextDocument: an open document has been edited
ChangeTextDocument ==
    \E uri \in Uris, text \in EditorTexts :
       /\ documents[uri] # Undefined
       /\ documents' = [documents EXCEPT ![uri] = Some(text)]
       /\ collection' =
            IF LanguageId(uri) = "structurizr"
            THEN updateDiagnostics(collection, uri, text)
            ELSE collection
       /\ lastEvent' = [kind |-> "change", uri |-> uri]
       /\ UNCHANGED <<lines, pc, scan, diagnostics, parsed, blockContext, calls,
                      previewVars>>

\* onDidCloseTextDocument
CloseTextDocument ==
    \E uri \in Uris :
       /\ documents[uri] # Undefined
       /\ documents' = [documents EXCEPT ![uri] = Undefined]
       /\ collection' = CollectionDelete(collection, uri)
       /\ lastEvent' = [kind |-> "close", uri |-> uri]
       /\ UNCHANGED <<lines, pc, scan, diagnostics, parsed, blockContext, calls,
                      previewVars>>

NextEditor ==
    \/ OpenTextDocument
    \/ ChangeActiveTextEditor
    \/ ChangeTextDocument
    \/ CloseTextDocument

SpecEditor == InitEditor /\ [][NextEditor]_vars

\* C22: after an activation or a change event for a structurizr document the
\* set published for its URI is the list computed from its current text and
\* nothing else, whatever was published before; after the document is
\* closed nothing is published for its URI
C22_PublishedIsOfCurrentText ==
    /\ lastEvent.kind \in {"activate", "change"}
         /\ LanguageId(lastEvent.uri) = "structurizr" =>
            collection[lastEvent.uri]
              = Some(computeDiagnostics(Split(documents[lastEvent.uri][1])))
    /\ lastEvent.kind = "close" => collection[lastEvent.uri] = Undefined

(***************************************************************************)
(* activate: the preview command and the debounced update of the preview   *)
(* (extension.ts), PreviewPanel.createOrShow and dispose (previewPanel.ts) *)
(***************************************************************************)
\* the delay handed to setTimeout, in milliseconds
Delay == 500

\* PreviewPanel.currentPanel as a number: 0 when undefined
PanelId(panel) == IF panel = Undefined THEN 0 ELSE panel[1]

\* what happened to the preview, in order: kind is "show" (the preview
\* command on a structurizr document), "dispose", "change" (a change event
\* that set a timer) or "fire" (a timer callback ran; panel is the panel it
\* updated, 0 when it updated none).  The preview command elsewhere only
\* shows a warning and a change event that sets no timer does nothing:
\* neither is recorded
LogEntry(kind, uri, timer, panel) ==
    [kind |-> kind, time |-> clock, uri |-> uri, timer |-> timer,
     panel |-> panel]

\* the entries of one kind
EntriesOf(kinds) == {k \in DOMAIN previewLog : previewLog[k].kind \in kinds}

\* the editor events so far
EventCount == Cardinality(DOMAIN previewLog \ EntriesOf({"fire"}))

\* the handle of the next timer and the number of the next panel
NewTimer == Cardinality(EntriesOf({"change"})) + 1

NewPanel ==
    Cardinality({k \in EntriesOf({"show"}) :
                    \A m \in EntriesOf({"show"}) :
                       m < k => previewLog[m].panel # previewLog[k].panel}) + 1

\* if (updateTimeout) clearTimeout(updateTimeout), with the mutation that
\* leaves the timer pending
ClearTimeout_LeftPending(pending, handle) == pending

\* if (updateTimeout) clearTimeout(updateTimeout): clearing a handle whose
\* timer has run is a no-op
ClearTimeout(pending, handle) ==
    IF handle = Undefined THEN pending
    ELSE {t \in pending : t.id # handle[1]}

\* setTimeout(callback, 500): the callback closes over event.document
SetTimeout(pending, id, uri) ==
    pending \cup {[id |-> id, due |-> clock + Delay, uri |-> uri]}

InitPreview ==
    /\ lines = <<>>
    /\ pc = "active"
    /\ scan = NoScan
    /\ diagnostics = <<>>
    /\ parsed = NoParse
    /\ blockContext = NoBlock
    /\ calls = <<>>
    /\ documents = <<>>
    /\ collection = <<>>
    /\ lastEvent = NoEvent
    /\ PreviewIdle

\* the command structurizr.showPreview with the document of the active
\* editor: createOrShow reveals and updates the panel there is, or creates
\* one, whose constructor updates it; on another document it only warns
ShowPreview ==
    \E uri \in Uris :
       /\ EventCount < MaxEvents
       /\ IF LanguageId(uri) = "structurizr"
          THEN /\ currentPanel' = IF currentPanel # Undefined THEN currentPanel
                                  ELSE Some(NewPanel)
               /\ previewLog' =
                    Append(previewLog,
                           LogEntry("show", uri, 0,
                                    IF currentPanel # Undefined
                                    THEN PanelId(currentPanel) ELSE NewPanel))
          ELSE UNCHANGED <<currentPanel, previewLog>>
       /\ UNCHANGED <<lines, pc, scan, diagnostics, parsed, blockContext, calls,
                      editorVars, clock, updateTimeout, timers>>

\* the panel is closed: dispose()
DisposePanel ==
    /\ EventCount < MaxEvents
    /\ currentPanel # Undefined
    /\ currentPanel' = Undefined
    /\ previewLog' =
         Append(previewLog, LogEntry("dispose", "", 0, PanelId(currentPanel)))
    /\ UNCHANGED <<lines, pc, scan, diagnostics, parsed, blockContext, calls,
                   editorVars, clock, updateTimeout, timers>>

\* the listener of onDidChangeTextDocument registered by activate
PreviewChangeTextDocument ==
    \E uri \in Uris :
       /\ EventCount < MaxEvents
       /\ IF LanguageId(uri) = "structurizr" /\ currentPanel # Undefined
          THEN /\ timers' = SetTimeout(ClearTimeout(timers, updateTimeout),
                                       NewTimer, uri)
               /\ updateTimeout' = Some(NewTimer)
               /\ previewLog' =
                    Append(previewLog,
                           LogEntry("change", uri, NewTimer,
                                    PanelId(currentPanel)))
          ELSE UNCHANGED <<timers, updateTimeout, previewLog>>
       /\ UNCHANGED <<lines, pc, scan, diagnostics, parsed, blockContext, calls,
                      editorVars, clock, currentPanel>>

\* the callback of a timer that is due: PreviewPanel.currentPanel?.update
TimerFires ==
    \E t \in timers :
       /\ t.due <= clock
       /\ timers' = timers \ {t}
       /\ previewLog' =
            Append(previewLog,
                   LogEntry("fire", t.uri, t.id, PanelId(currentPanel)))
       /\ UNCHANGED <<lines, pc, scan, diagnostics, parsed, blockContext, calls,
                      editorVars, clock, updateTimeout, currentPanel>>

\* time passes, by TimeStep or up to the next timer that comes due: a timer
\* runs when its delay has elapsed
Tick ==
    /\ \A t \in timers : t.due > clock
    /\ \E next \in (clock + 1)..MaxTime :
          /\ next = clock + TimeStep \/ \E t \in timers : next = t.due
          /\ next <= clock + TimeStep
          /\ \A t \in timers : next <= t.due
          /\ clock' = next
    /\ UNCHANGED <<lines, pc, scan, diagnostics, parsed, blockContext, calls,
                   editorVars, updateTimeout, timers, currentPanel, previewLog>>

NextPreview ==
    \/ ShowPreview
    \/ DisposePanel
    \/ PreviewChangeTextDocument
    \/ TimerFires
    \/ Tick

SpecPreview == InitPreview /\ [][NextPreview]_vars

\* the change event that set the timer of the callback at k
SetBy(k) ==
    {j \in EntriesOf({"change"}) : previewLog[j].timer = previewLog[k].timer}

\* at most one timer is pending
AtMostOnePending == Cardinality(timers) <= 1

\* every callback that ran belongs to the last change event before it, ran
\* Delay after it, with its document, and is the only one since
FiresOncePerBurst ==
    \A k \in EntriesOf({"fire"}) :
       \E j \in SetBy(k) :
          /\ j < k
          /\ previewLog[k].time = previewLog[j].time + Delay
          /\ previewLog[k].uri = previewLog[j].uri
          /\ \A m \in EntriesOf({"change", "fire"}) : ~(j < m /\ m < k)

\* every change event that set a timer is followed by another one in time,
\* or its callback ran, or its timer is the pending one and not overdue
NoBurstLost ==
    \A j \in EntriesOf({"change"}) :
       \/ \E m \in EntriesOf({"change"}) :
             j < m /\ previewLog[m].time <= previewLog[j].time + Delay
       \/ \E k \in EntriesOf({"fire"}) : j \in SetBy(k)
       \/ /\ \E t \in timers : t.id = previewLog[j].timer
          /\ clock <= previewLog[j].time + Delay

\* the panel there is just before entry k, from the commands and disposals
\* recorded before it
PanelBefore(k) ==
    LET panelEvents == {m \in EntriesOf({"show", "dispose"}) : m < k}
    IN  IF panelEvents = {} THEN 0
        ELSE LET last == CHOOSE m \in panelEvents : \A n \in panelEvents : n <= m
             IN  IF previewLog[last].kind = "dispose" THEN 0
                 ELSE previewLog[last].panel

\* a panel was disposed between the change event of the callback at k and
\* the callback
DisposedSinceSet(k) ==
    \E j \in SetBy(k) :
       \E d \in EntriesOf({"dispose"}) : j < d /\ d < k

\* C29 as stated: at most one timer pending, one update per burst Delay
\* after its last edit with the document of that edit, and no update when
\* the panel was disposed before the timer fired
C29_DisposedPanelNoUpdate ==
    /\ AtMostOnePending
    /\ FiresOncePerBurst
    /\ NoBurstLost
    /\ \A k \in EntriesOf({"fire"}) :
          DisposedSinceSet(k) => previewLog[k].panel = 0

\* C29: at most one timer is pending; a burst of change events for
\* structurizr documents while a panel exists runs one callback, Delay after
\* the last edit of the burst and with the document of that edit; the
\* callback updates the panel that exists when it runs, and updates nothing
\* when none exists
C29_DebouncedUpdate ==
    /\ AtMostOnePending
    /\ FiresOncePerBurst
    /\ NoBurstLost
    /\ \A k \in EntriesOf({"fire"}) : previewLog[k].panel = PanelBefore(k)

\* a burst of two edits less than Delay apart was followed by its one update
C29_Witness ==
    \E j1, j2 \in EntriesOf({"change"}) :
       \E k \in EntriesOf({"fire"}) :
          /\ j1 < j2 /\ j2 < k
          /\ previewLog[j1].time < previewLog[j2].time
          /\ previewLog[j2].time < previewLog[j1].time + Delay
          /\ previewLog[j1].uri # previewLog[j2].uri
          /\ j2 \in SetBy(k)
          /\ previewLog[k].panel # 0

====
